---- MODULE Spec2Model ----
(***************************************************************************)
(* Orchestration layer of MXU (src-tauri): the instance registry           *)
(* (MaaState.instances), the multi-agent task submission                   *)
(* (commands/maa_agent.rs: maa_start_tasks, start_single_agent), the       *)
(* background agent shutdown (maa_stop_agent) and the registry commands of *)
(* maa_commands.rs (create/destroy instance, connect controller, load and  *)
(* destroy resource, run task).                                            *)
(*                                                                         *)
(* Engine handles are positive integers, 0 is Option::None.  The engine    *)
(* is opaque: every answer it gives (creation succeeded, inited, post      *)
(* succeeded, connect succeeded, ...) is a nondeterministic input.         *)
(* Time is counted in milliseconds; thread::sleep(d) lasts exactly d and   *)
(* every other statement takes no time.                                    *)
(***************************************************************************)
EXTENDS Integers, Sequences, FiniteSets, TLC

\* ---------------------------------------------------------------- bounds
InstanceIds == {"a"}
MaxCalls == 1
MaxThreads == 1
MaxAgents == 2
MaxLaunches == 2
MaxTasks == 3
MaxJobs == 2
MaxHandles == 2
MaxStops == 1
MaxBundles == 2
MaxLines == 2
MaxDownloads == 2
MaxSessions == 2
MaxChunks == 1

\* ------------------------------------------------------ program constants
TimeoutMs == 5000
PollMs == 100

Calls == 1..MaxCalls
Threads == 1..MaxThreads

VARIABLES
    instances,    \* MaaState.instances: instance id -> InstanceRuntime
    resources,    \* engine: resource handle h -> destroy calls on h, bundles posted to h
    controllers,  \* engine: controller handle h -> number of destroy calls
    taskers,      \* engine: tasker handle h -> destroy and post_stop calls made on it
    agents,       \* launch id -> agent client and child process of that launch
    nextJob,      \* engine: the id the next successful post_task returns
    call,         \* in-flight maa_start_tasks calls (locals and position)
    thr,          \* background threads spawned by maa_stop_agent
    reply,        \* what the last snapshot query returned to its caller
    readers,      \* the stdout and the stderr reader thread of one agent child
    logfile,      \* that agent's log file and the mutex around it
    events,       \* the maa-agent-output events emitted, in order
    mutex,        \* owner of the MAA_LIBRARY lock and of the instances lock
    cmds,         \* commands in progress between two lock operations
    download      \* DOWNLOAD_CANCELLED, CURRENT_DOWNLOAD_SESSION, the files, the calls

\* The state that the registry commands, the submissions and the shutdown
\* threads neither read nor write.
pipes == <<readers, logfile, events>>

\* The two global locks and the commands that are part-way through them; the
\* downloads.
aux == <<mutex, cmds, download>>

rest == <<reply, pipes, aux>>

\* The registry, the engine's handles, the agents, the calls and the threads.
core == <<instances, resources, controllers, taskers, agents, nextJob, call, thr>>

vars == <<core, rest>>

\* ------------------------------------------------------------- data model
NoTasker == [id |-> 0, res |-> 0, ctrl |-> 0]

\* InstanceRuntime::default(); `exists` is membership in the HashMap.
DefaultRuntime ==
    [exists |-> FALSE, resource |-> 0, controller |-> 0, tasker |-> NoTasker,
     agent_clients |-> <<>>, agent_children |-> <<>>, task_ids |-> <<>>]

\* One launch: the engine-side agent client and the spawned child process.
\* status: "running", "exited" (terminated by itself, not reaped),
\* "dead" (terminated by kill, not reaped), "reaped".
\* index is the agent_index the launch was given.  The other fields record
\* what happened to the pair: the number of disconnect, destroy (of the
\* client), kill and wait calls,
\* whether and when the child terminated by itself (exit: "no", "early",
\* "last", "late", see ChildExit), whether a try_wait saw it exited (sawExit)
\* or failed (pollErr), whether a disconnect or a kill returned an error
\* (disconnectErr, killErr).  client is the kind of the agent client: "default"
\* (AgentClient::new) or "tcp" (AgentClient::create_tcp).
NewAgent(index) ==
    [index |-> index, disconnects |-> 0, destroys |-> 0, status |-> "running",
     kills |-> 0, waits |-> 0, exit |-> "no", sawExit |-> FALSE, pollErr |-> FALSE,
     disconnectErr |-> FALSE, killErr |-> FALSE, client |-> "default"]

\* The error text of a failed start_single_agent: the step whose failure it
\* reports (cause) and the agent index written into the text, -1 if the text
\* holds none.  NoDetail: no such text.
NoDetail == [cause |-> "", index |-> -1]

\* Result<Vec<i64>, String> of a call.  msg is the fixed text of the error,
\* detail the launch's own error that follows the prefix "Agent start failed: ".
NoResult == [kind |-> "none", msg |-> "", ids |-> <<>>, detail |-> NoDetail]
Ok(ids) == [kind |-> "Ok", msg |-> "", ids |-> ids, detail |-> NoDetail]
Err(msg) == [kind |-> "Err", msg |-> msg, ids |-> <<>>, detail |-> NoDetail]

\* One maa_start_tasks call: its arguments (inst, ntasks = tasks.len(),
\* ncfg = agent_configs.len() or -1 for None, tcp = tcp_compat_mode), its locals
\* and its position pc.  initedAns is the answer tasker.inited() gave; posts,
\* createdTasker, attempts (launches tried), attached and cached record what
\* the call has done so far.  stale names the kind of handle on which the
\* call has made an engine call after the handle was destroyed ("none" if it
\* has made no such call).
IdleCall ==
    [pc |-> "idle", inst |-> "a", ntasks |-> 0, ncfg |-> -1, tcp |-> FALSE,
     res |-> 0, ctrl |-> 0, tasker |-> NoTasker,
     idx |-> 0, new_clients |-> <<>>, new_children |-> <<>>,
     tidx |-> 0, task_ids |-> <<>>, posts |-> <<>>,
     initedAns |-> "none", createdTasker |-> FALSE, attempts |-> 0,
     attached |-> FALSE, cached |-> FALSE, stale |-> "none", result |-> NoResult]

\* One thread spawned by maa_stop_agent: the collections it owns, its position
\* (pc, ci = the client being disconnected, i = the child being waited for),
\* start.elapsed() in ms, the local `exited`, and the number of try_wait calls
\* made on child i (polls).
IdleThread ==
    [pc |-> "idle", clients |-> <<>>, children |-> <<>>, ci |-> 1, i |-> 1,
     elapsed |-> 0, exited |-> FALSE, polls |-> 0]

\* What a snapshot query returns: the command, Ok or Err with its text, and
\* for Ok the map instance id -> InstanceState.  engine records the answers the
\* engine gave to the query and asked the handles it was asked about.
NoReply ==
    [cmd |-> "none", kind |-> "none", msg |-> "", states |-> <<>>,
     engine |-> <<>>, asked |-> {}]

\* The two piped streams of an agent child.
Streams == {"stdout", "stderr"}

\* A reader thread: its position, the number of lines it has read, and why
\* it left its loop ("eof", "err"; "no" while it has not).
NoReader == [pc |-> "none", n |-> 0, stop |-> "no"]

\* Arc<Mutex<Option<File>>>: whether the file could be opened, the stream
\* whose reader holds the mutex ("none" if free), and the writes made to the
\* file so far.
NoLog == [opened |-> FALSE, owner |-> "none", data |-> <<>>]

\* Both locks free.
NoMutex == [library |-> "free", instances |-> "free"]

\* A command between two lock operations: its position, its instance_id, the
\* InstanceRuntime it has removed and not dropped yet, the task id it was given.
NoCmd == [pc |-> "idle", id |-> "none", removed |-> <<>>, job |-> 0]

\* One download_file call: its position, its session_id, the chunks received,
\* its result ("ok", "cancelled", "error"), whether it renamed the temp file,
\* and whether cancel_download was invoked while it was in progress.
NoDownload ==
    [pc |-> "idle", session_id |-> 0, chunks |-> 0, result |-> "none",
     renamed |-> FALSE, cancelSeen |-> FALSE]

Downloads == 1..MaxDownloads

\* DOWNLOAD_CANCELLED is false and CURRENT_DOWNLOAD_SESSION is 0 (lines
\* 2562-2564); neither the '.downloading' temp file nor the saved file exists.
\* All calls are given the same save_path.
NoDownloads ==
    [cancelled |-> FALSE, session |-> 0, temp |-> "absent", saved |-> 0,
     calls |-> [d \in Downloads |-> NoDownload]]

AuxInit ==
    /\ mutex = NoMutex
    /\ cmds = [c \in {"destroy", "run", "query"} |-> NoCmd]
    /\ download = NoDownloads

RestInit ==
    /\ AuxInit
    /\ reply = NoReply
    /\ readers = [s \in Streams |-> NoReader]
    /\ logfile = NoLog
    /\ events = <<>>

Init ==
    /\ RestInit
    /\ instances = [i \in InstanceIds |-> DefaultRuntime]
    /\ resources = <<>>
    /\ controllers = <<>>
    /\ taskers = <<>>
    /\ agents = <<>>
    /\ nextJob = 1
    /\ call = [c \in Calls |-> IdleCall]
    /\ thr = [t \in Threads |-> IdleThread]

\* ---------------------------------------------------------------- helpers
Destroy(tbl, h) == [tbl EXCEPT ![h] = @ + 1]

\* One resource of the engine: the number of MaaResourceDestroy calls made on
\* it and of bundles posted to it.
NewResource == [destroys |-> 0, bundles |-> 0]

DestroyRes(tbl, h) == [tbl EXCEPT ![h].destroys = @ + 1]

PostBundles(tbl, h, n) == [tbl EXCEPT ![h].bundles = @ + n]

\* One tasker of the engine: the number of MaaTaskerDestroy and of
\* MaaTaskerPostStop calls made on it, and the step of its setup (attaching
\* the sink, binding resource and controller) that failed, "none" if none did.
NewTasker == [destroys |-> 0, stops |-> 0, setupErr |-> "none"]

DestroyTasker(tbl, h) == [tbl EXCEPT ![h].destroys = @ + 1]

PostStop(tbl, h) == [tbl EXCEPT ![h].stops = @ + 1]

Disconnect(tbl, a) == [tbl EXCEPT ![a].disconnects = @ + 1]

\* client.disconnect() returns an error.
DisconnectErr(tbl, a) ==
    [tbl EXCEPT ![a].disconnects = @ + 1, ![a].disconnectErr = TRUE]

\* Child::kill returns an error: no signal was delivered.
KillErr(tbl, a) == [tbl EXCEPT ![a].kills = @ + 1, ![a].killErr = TRUE]

\* Child::kill: the process terminates if it still runs.
Kill(tbl, a) ==
    [tbl EXCEPT ![a].kills = @ + 1,
                ![a].status = IF @ = "running" THEN "dead" ELSE @]

\* Child::wait: blocks until the child has terminated, then reaps it.
Wait(tbl, a) ==
    [tbl EXCEPT ![a].waits = @ + 1, ![a].status = "reaped"]

KillAndWait(tbl, a) == Wait(Kill(tbl, a), a)

RECURSIVE DisconnectAll(_, _)
\* `for client in clients { client.disconnect() }`
DisconnectAll(tbl, s) ==
    IF s = <<>> THEN tbl ELSE DisconnectAll(Disconnect(tbl, Head(s)), Tail(s))

RECURSIVE KillAndWaitAll(_, _)
\* `for child in children { child.kill(); child.wait() }`
KillAndWaitAll(tbl, s) ==
    IF s = <<>> THEN tbl ELSE KillAndWaitAll(KillAndWait(tbl, Head(s)), Tail(s))

\* ------------------------------------------------- registry (maa_commands.rs)

CreateInstanceResets(i) ==
    /\ UNCHANGED rest
    /\ instances' = [instances EXCEPT ![i] = [DefaultRuntime EXCEPT !.exists = TRUE]]
    /\ UNCHANGED <<resources, controllers, taskers, agents, nextJob, call, thr>>

\* maa_create_instance: idempotent insert of InstanceRuntime::default().
CreateInstance(i) ==
    /\ UNCHANGED rest
    /\ instances' = [instances EXCEPT ![i] =
                        IF @.exists THEN @ ELSE [DefaultRuntime EXCEPT !.exists = TRUE]]
    /\ UNCHANGED <<resources, controllers, taskers, agents, nextJob, call, thr>>

\* One release made by the Drop of an InstanceRuntime: the engine or OS call
\* (op) and the handle it is made on (h).
ReleaseOp(op, h) == [op |-> op, h |-> h]

RECURSIVE ClientReleases(_)
\* Lines 216-219: the agent client is disconnected, then destroyed.
ClientReleases(clients) ==
    IF clients = <<>> THEN <<>>
    ELSE <<ReleaseOp("agent_disconnect", Head(clients)),
           ReleaseOp("agent_destroy", Head(clients))>> \o ClientReleases(Tail(clients))

ReleaseOpsResourceFirst(rt) ==
    (IF rt.resource # 0 THEN <<ReleaseOp("resource_destroy", rt.resource)>> ELSE <<>>)
    \o ClientReleases(rt.agent_clients)
    \o [k \in 1..Len(rt.agent_children) |-> ReleaseOp("child_kill", rt.agent_children[k])]
    \o (IF rt.tasker.id # 0 THEN <<ReleaseOp("tasker_destroy", rt.tasker.id)>> ELSE <<>>)
    \o (IF rt.controller # 0 THEN <<ReleaseOp("controller_destroy", rt.controller)>> ELSE <<>>)

\* Lines 215-234, the releases of InstanceRuntime::drop in the order they are
\* made: agent client, agent child, tasker, controller, resource, each only
\* if the runtime holds it.
ReleaseOps(rt) ==
    ClientReleases(rt.agent_clients)
    \o [k \in 1..Len(rt.agent_children) |-> ReleaseOp("child_kill", rt.agent_children[k])]
    \o (IF rt.tasker.id # 0 THEN <<ReleaseOp("tasker_destroy", rt.tasker.id)>> ELSE <<>>)
    \o (IF rt.controller # 0 THEN <<ReleaseOp("controller_destroy", rt.controller)>> ELSE <<>>)
    \o (IF rt.resource # 0 THEN <<ReleaseOp("resource_destroy", rt.resource)>> ELSE <<>>)

\* The engine and the processes as a record, so that releases can be applied
\* one after another.
World == [agents |-> agents, taskers |-> taskers, controllers |-> controllers,
          resources |-> resources]

\* The effect of one release.
Release(w, o) ==
    IF o.op = "agent_disconnect" THEN [w EXCEPT !.agents = Disconnect(@, o.h)]
    ELSE IF o.op = "agent_destroy" THEN [w EXCEPT !.agents[o.h].destroys = @ + 1]
    ELSE IF o.op = "child_kill" THEN [w EXCEPT !.agents = Kill(@, o.h)]
    ELSE IF o.op = "tasker_destroy" THEN [w EXCEPT !.taskers = DestroyTasker(@, o.h)]
    ELSE IF o.op = "controller_destroy" THEN [w EXCEPT !.controllers = Destroy(@, o.h)]
    ELSE [w EXCEPT !.resources = DestroyRes(@, o.h)]

RECURSIVE ReleaseAll(_, _)
ReleaseAll(w, ops) ==
    IF ops = <<>> THEN w ELSE ReleaseAll(Release(w, Head(ops)), Tail(ops))

\* Drop of the removed InstanceRuntime (MAA_LIBRARY is loaded and its lock is
\* not poisoned): the releases of ReleaseOps, in order.
DropRuntime(rt) ==
    LET w == ReleaseAll(World, ReleaseOps(rt)) IN
    /\ agents' = w.agents
    /\ taskers' = w.taskers
    /\ controllers' = w.controllers
    /\ resources' = w.resources

RemoveAll(map, i) == [j \in DOMAIN map |-> DefaultRuntime]

\* instances.remove(&instance_id)
Remove(map, i) == [map EXCEPT ![i] = DefaultRuntime]

\* maa_destroy_instance: instances.remove(id); the removed value is dropped.
DestroyInstance(i) ==
    /\ UNCHANGED rest
    /\ IF instances[i].exists
       THEN /\ DropRuntime(instances[i])
            /\ instances' = Remove(instances, i)
       ELSE UNCHANGED <<instances, agents, taskers, controllers, resources>>
    /\ UNCHANGED <<nextJob, call, thr>>

\* The registry update of maa_connect_controller (lines 809-826): the old
\* controller is destroyed and the new one stored.
StoreController(rt, ctrl) == [rt EXCEPT !.controller = ctrl]

\* A maa_connect_controller that stores the new controller and leaves the old
\* one alone.
ConnectControllerKeepsOld(i, created, posted) ==
    /\ UNCHANGED rest
    /\ UNCHANGED <<resources, taskers, agents, nextJob, call, thr>>
    /\ IF ~created
       THEN UNCHANGED <<instances, controllers>>
       ELSE /\ Len(controllers) < MaxHandles
            /\ controllers' = Append(controllers, IF posted THEN 0 ELSE 1)
            /\ instances' = IF posted /\ instances[i].exists
                            THEN [instances EXCEPT ![i] =
                                    StoreController(@, Len(controllers) + 1)]
                            ELSE instances

\* maa_connect_controller.  created: the engine returned a non-null controller;
\* posted: MaaControllerPostConnection returned a valid id.
ConnectController(i, created, posted) ==
    /\ UNCHANGED rest
    /\ UNCHANGED <<resources, taskers, agents, nextJob, call, thr>>
    /\ IF ~created
       THEN UNCHANGED <<instances, controllers>>
       ELSE /\ Len(controllers) < MaxHandles
            /\ LET c == Len(controllers) + 1 IN
               IF ~posted
               THEN /\ controllers' = Append(controllers, 1)
                    /\ UNCHANGED instances
               ELSE IF ~instances[i].exists
               THEN /\ controllers' = Append(controllers, 0)
                    /\ UNCHANGED instances
               ELSE /\ controllers' =
                          LET new == Append(controllers, 0)
                              old == instances[i].controller
                          IN IF old # 0 THEN Destroy(new, old) ELSE new
                    /\ instances' = [instances EXCEPT ![i] = StoreController(@, c)]

\* A maa_load_resource that creates a resource on every call.
LoadResourceAlways(i, created, npaths) ==
    /\ UNCHANGED rest
    /\ UNCHANGED <<controllers, taskers, agents, nextJob, call, thr>>
    /\ IF ~instances[i].exists \/ ~created
       THEN UNCHANGED <<instances, resources>>
       ELSE /\ Len(resources) < MaxHandles
            /\ resources' = PostBundles(Append(resources, NewResource),
                                        Len(resources) + 1, npaths)
            /\ instances' = [instances EXCEPT ![i].resource = Len(resources) + 1]

\* maa_load_resource with npaths paths: the resource is created only when
\* the instance has none (created: the engine returned a non-null resource);
\* one bundle per path is then posted to the instance's resource.
LoadResource(i, created, npaths) ==
    /\ UNCHANGED rest
    /\ UNCHANGED <<controllers, taskers, agents, nextJob, call, thr>>
    /\ LET rt == instances[i]
           fresh == rt.resource = 0
           h == IF fresh THEN Len(resources) + 1 ELSE rt.resource
       IN IF ~rt.exists \/ (fresh /\ ~created)
          THEN UNCHANGED <<instances, resources>>
          ELSE /\ fresh => Len(resources) < MaxHandles
               /\ ~fresh => resources[h].bundles + npaths <= MaxBundles
               /\ resources' = PostBundles(IF fresh THEN Append(resources, NewResource)
                                           ELSE resources, h, npaths)
               /\ instances' = [instances EXCEPT ![i].resource = h]

TakeResourceOnly(rt) == [rt EXCEPT !.resource = 0]

\* The registry update of maa_destroy_resource: resource.take() and
\* tasker.take().
TakeResourceAndTasker(rt) == [rt EXCEPT !.resource = 0, !.tasker = NoTasker]

\* maa_destroy_resource: destroys the resource and the tasker bound to it.
DestroyResource(i) ==
    /\ UNCHANGED rest
    /\ UNCHANGED <<controllers, agents, nextJob, call, thr>>
    /\ IF instances[i].exists
       THEN LET rt == instances[i]
                after == TakeResourceAndTasker(rt)
            IN /\ resources' = IF rt.resource # 0 /\ after.resource = 0
                               THEN DestroyRes(resources, rt.resource) ELSE resources
               /\ taskers' = IF rt.tasker.id # 0 /\ after.tasker.id = 0
                             THEN DestroyTasker(taskers, rt.tasker.id) ELSE taskers
               /\ instances' = [instances EXCEPT ![i] = after]
       ELSE UNCHANGED <<instances, resources, taskers>>

ClearNothing(rt) == rt

\* instance.task_ids.clear()
ClearTaskIds(rt) == [rt EXCEPT !.task_ids = <<>>]

StopTaskNoPost(tbl, rt) == tbl

\* Lines 1125-1129: MaaTaskerPostStop on the instance's tasker; without a
\* tasker the command returns "Tasker not created" before the call.
StopTaskPost(tbl, rt) == IF rt.tasker.id # 0 THEN PostStop(tbl, rt.tasker.id) ELSE tbl

\* A maa_stop_task that inserts a default runtime for an unknown id.
StopTaskCreates(i) ==
    /\ UNCHANGED rest
    /\ UNCHANGED <<resources, controllers, agents, nextJob, call, thr>>
    /\ instances[i].tasker.id # 0 => taskers[instances[i].tasker.id].stops < MaxStops
    /\ instances' = [instances EXCEPT ![i] = [ClearTaskIds(@) EXCEPT !.exists = TRUE]]
    /\ taskers' = StopTaskPost(taskers, instances[i])

\* maa_stop_task: the cached task ids are cleared, then, if the instance has
\* a tasker, a stop is posted to it.  The ids are cleared before the tasker
\* is looked at, so also when the command fails with "Tasker not created".
StopTask(i) ==
    /\ UNCHANGED rest
    /\ UNCHANGED <<resources, controllers, agents, nextJob, call, thr>>
    /\ IF ~instances[i].exists
       THEN UNCHANGED <<instances, taskers>>
       ELSE /\ instances[i].tasker.id # 0 =>
                   taskers[instances[i].tasker.id].stops < MaxStops
            /\ instances' = [instances EXCEPT ![i] = ClearTaskIds(@)]
            /\ taskers' = StopTaskPost(taskers, instances[i])

\* ------------------------------------- task submission (commands/maa_agent.rs)

\* The engine's answers while a tasker is created (lines 272-300): the first
\* step that fails, or "ok".
TaskerSteps == {"ok", "new", "add_sink", "add_context_sink", "bind"}

AcquireResult(rt, err, created) == [rt |-> rt, err |-> err, created |-> created]

AcquireEager(rt, step, newId) ==
    IF ~rt.exists THEN AcquireResult(rt, "Instance not found", FALSE)
    ELSE IF rt.resource = 0 THEN AcquireResult(rt, "Resource not loaded", FALSE)
    ELSE IF rt.tasker.id # 0 THEN AcquireResult(rt, "", FALSE)
    ELSE IF rt.controller = 0
    THEN AcquireResult([rt EXCEPT !.tasker = [id |-> newId, res |-> rt.resource,
                                              ctrl |-> 0]],
                       "Controller not connected", TRUE)
    ELSE IF step # "ok" THEN AcquireResult(rt, step, FALSE)
    ELSE AcquireResult([rt EXCEPT !.tasker = [id |-> newId, res |-> rt.resource,
                                              ctrl |-> rt.controller]], "", TRUE)

\* Lines 252-306 on the instance's runtime rt: the error returned, or the runtime
\* with a tasker (handle newId, bound to the current resource and controller)
\* stored if it had none.
Acquire(rt, step, newId) ==
    IF ~rt.exists THEN AcquireResult(rt, "Instance not found", FALSE)
    ELSE IF rt.resource = 0 THEN AcquireResult(rt, "Resource not loaded", FALSE)
    ELSE IF rt.controller = 0 THEN AcquireResult(rt, "Controller not connected", FALSE)
    ELSE IF rt.tasker.id # 0 THEN AcquireResult(rt, "", FALSE)
    ELSE IF step # "ok" THEN AcquireResult(rt, step, FALSE)
    ELSE AcquireResult([rt EXCEPT !.tasker = [id |-> newId, res |-> rt.resource,
                                              ctrl |-> rt.controller]], "", TRUE)

\* Lines 248-307, one hold of the registry lock: read resource and controller,
\* create, bind and store the tasker when the instance has none.
ST_Acquire(c, i, nt, nc, tcp, step) ==
    /\ UNCHANGED rest
    /\ call[c].pc = "idle"
    /\ \A u \in Calls : u < c => call[u].pc # "idle"
    /\ nc > 0 => Len(agents) + nc <= MaxLaunches
    /\ UNCHANGED <<resources, controllers, agents, nextJob, thr>>
    /\ LET r == Acquire(instances[i], step, Len(taskers) + 1)
           me == [call[c] EXCEPT !.inst = i, !.ntasks = nt, !.ncfg = nc, !.tcp = tcp,
                                 !.createdTasker = r.created]
       IN /\ r.created => Len(taskers) < MaxHandles
          /\ instances' = [instances EXCEPT ![i] = r.rt]
          /\ taskers' = IF r.created THEN Append(taskers, NewTasker) ELSE taskers
          /\ call' = [call EXCEPT ![c] =
                        IF r.err # ""
                        THEN [me EXCEPT !.pc = "done", !.result = Err(r.err)]
                        ELSE [me EXCEPT !.pc = "inited", !.res = r.rt.resource,
                                        !.ctrl = r.rt.controller,
                                        !.tasker = r.rt.tasker]]

AfterInitedIgnored(me, inited) ==
    IF me.ncfg > 0 THEN [me EXCEPT !.pc = "launch"] ELSE [me EXCEPT !.pc = "post"]

\* Where the call goes once tasker.inited() has answered (lines 311-388).
AfterInited(me, inited) ==
    IF ~inited
    THEN [me EXCEPT !.pc = "done", !.result = Err("Tasker not properly initialized")]
    ELSE IF me.ncfg > 0 THEN [me EXCEPT !.pc = "launch"]
    ELSE [me EXCEPT !.pc = "post"]

\* Lines 310-322: the tasker's initialized flag is queried.
ST_Inited(c, inited) ==
    /\ UNCHANGED rest
    /\ call[c].pc = "inited"
    /\ call' = [call EXCEPT ![c] =
                  [AfterInited(@, inited) EXCEPT
                     !.initedAns = IF inited THEN "yes" ELSE "no"]]
    /\ UNCHANGED <<instances, resources, controllers, taskers, agents, nextJob, thr>>

\* The answers one start_single_agent run gets from the engine and the OS.
\* panic: the blocking worker panics before the child is spawned ("early"),
\* after it ("late"), or not at all.
AllAnswers ==
    [create_tcp |-> TRUE, create |-> TRUE, bind |-> TRUE, identifier |-> TRUE,
     spawn |-> TRUE, connect |-> TRUE, register_sinks |-> TRUE, panic |-> "no",
     teardown |-> TRUE]

\* Every answer after the first failing step is never asked for, so the
\* answers that differ in behaviour are: all succeed, exactly one step fails,
\* the TCP client and the default client both fail, or the worker panics.
LaunchAnswers ==
    {AllAnswers,
     [AllAnswers EXCEPT !.create_tcp = FALSE],
     [AllAnswers EXCEPT !.create = FALSE],
     [AllAnswers EXCEPT !.create_tcp = FALSE, !.create = FALSE],
     [AllAnswers EXCEPT !.bind = FALSE],
     [AllAnswers EXCEPT !.identifier = FALSE],
     [AllAnswers EXCEPT !.spawn = FALSE],
     [AllAnswers EXCEPT !.connect = FALSE],
     [AllAnswers EXCEPT !.register_sinks = FALSE],
     [AllAnswers EXCEPT !.panic = "early"],
     [AllAnswers EXCEPT !.panic = "late"]}

LaunchResult(ok, cause, spawned, killed) ==
    [ok |-> ok, cause |-> cause, spawned |-> spawned, killed |-> killed]

StartSingleAgentNoFallback(tcp, a) ==
    IF a.panic = "early" THEN LaunchResult(FALSE, "join", FALSE, FALSE)
    ELSE IF ~(IF tcp THEN a.create_tcp ELSE a.create)
    THEN LaunchResult(FALSE, "create", FALSE, FALSE)
    ELSE IF ~a.bind THEN LaunchResult(FALSE, "bind", FALSE, FALSE)
    ELSE IF ~a.identifier THEN LaunchResult(FALSE, "identifier", FALSE, FALSE)
    ELSE IF ~a.spawn THEN LaunchResult(FALSE, "spawn", FALSE, FALSE)
    ELSE IF a.panic = "late" THEN LaunchResult(FALSE, "join", TRUE, FALSE)
    ELSE IF ~a.connect THEN LaunchResult(FALSE, "connect", TRUE, TRUE)
    ELSE IF ~a.register_sinks THEN LaunchResult(FALSE, "register_sinks", TRUE, TRUE)
    ELSE LaunchResult(TRUE, "", TRUE, FALSE)

\* Lines 69-81: the client a launch works with: the TCP client when
\* tcp_compat_mode is set and create_tcp succeeded, the default client
\* otherwise.
ClientKind(tcp, a) == IF tcp /\ a.create_tcp THEN "tcp" ELSE "default"

StartSingleAgentNoKill(tcp, a) ==
    IF a.panic = "early" THEN LaunchResult(FALSE, "join", FALSE, FALSE)
    ELSE IF ~(IF tcp THEN a.create_tcp \/ a.create ELSE a.create)
    THEN LaunchResult(FALSE, "create", FALSE, FALSE)
    ELSE IF ~a.bind THEN LaunchResult(FALSE, "bind", FALSE, FALSE)
    ELSE IF ~a.identifier THEN LaunchResult(FALSE, "identifier", FALSE, FALSE)
    ELSE IF ~a.spawn THEN LaunchResult(FALSE, "spawn", FALSE, FALSE)
    ELSE IF a.panic = "late" THEN LaunchResult(FALSE, "join", TRUE, FALSE)
    ELSE IF ~a.connect THEN LaunchResult(FALSE, "connect", TRUE, FALSE)
    ELSE IF ~a.register_sinks THEN LaunchResult(FALSE, "register_sinks", TRUE, FALSE)
    ELSE LaunchResult(TRUE, "", TRUE, FALSE)

StartSingleAgentSpawnsFirst(tcp, a) ==
    IF a.panic = "early" THEN LaunchResult(FALSE, "join", FALSE, FALSE)
    ELSE IF ~(IF tcp THEN a.create_tcp \/ a.create ELSE a.create)
    THEN LaunchResult(FALSE, "create", FALSE, FALSE)
    ELSE IF ~a.spawn THEN LaunchResult(FALSE, "spawn", FALSE, FALSE)
    ELSE IF ~a.bind THEN LaunchResult(FALSE, "bind", TRUE, FALSE)
    ELSE IF ~a.identifier THEN LaunchResult(FALSE, "identifier", TRUE, FALSE)
    ELSE IF a.panic = "late" THEN LaunchResult(FALSE, "join", TRUE, FALSE)
    ELSE IF ~a.connect THEN LaunchResult(FALSE, "connect", TRUE, TRUE)
    ELSE IF ~a.register_sinks THEN LaunchResult(FALSE, "register_sinks", TRUE, TRUE)
    ELSE LaunchResult(TRUE, "", TRUE, FALSE)

\* start_single_agent (lines 54-228): Ok, or the step that failed; spawned says
\* whether the child process was started and killed whether child.kill() was
\* called on it before returning.
StartSingleAgent(tcp, a) ==
    IF a.panic = "early" THEN LaunchResult(FALSE, "join", FALSE, FALSE)
    ELSE IF ~(IF tcp THEN a.create_tcp \/ a.create ELSE a.create)
    THEN LaunchResult(FALSE, "create", FALSE, FALSE)
    ELSE IF ~a.bind THEN LaunchResult(FALSE, "bind", FALSE, FALSE)
    ELSE IF ~a.identifier THEN LaunchResult(FALSE, "identifier", FALSE, FALSE)
    ELSE IF ~a.spawn THEN LaunchResult(FALSE, "spawn", FALSE, FALSE)
    ELSE IF a.panic = "late" THEN LaunchResult(FALSE, "join", TRUE, FALSE)
    ELSE IF ~a.connect THEN LaunchResult(FALSE, "connect", TRUE, TRUE)
    ELSE IF ~a.register_sinks THEN LaunchResult(FALSE, "register_sinks", TRUE, TRUE)
    ELSE LaunchResult(TRUE, "", TRUE, FALSE)

\* The String start_single_agent returns as its error: the engine's or the
\* runtime's own text (e.to_string(), lines 77, 80, 85, 214, 223, 227), which
\* holds no agent index, or one of the two texts formatted with agent_index
\* (lines 90 and 126).
LaunchError(cause, agent_index) ==
    [cause |-> cause,
     index |-> IF cause \in {"identifier", "spawn"} THEN agent_index ELSE -1]

\* Line 367: Err(format!("Agent start failed: {}", e)).
StartFailed(e) == [Err("Agent start failed") EXCEPT !.detail = e]

RollbackClientsOnly(tbl, clients, children) == DisconnectAll(tbl, clients)

\* Lines 359-366: every client launched so far is disconnected, every child
\* launched so far is killed and waited on.
Rollback(tbl, clients, children) ==
    KillAndWaitAll(DisconnectAll(tbl, clients), children)

RECURSIVE DisconnectErrAll(_, _)
DisconnectErrAll(tbl, s) ==
    IF s = <<>> THEN tbl ELSE DisconnectErrAll(DisconnectErr(tbl, Head(s)), Tail(s))

RECURSIVE KillErrAndWaitAll(_, _)
KillErrAndWaitAll(tbl, s) ==
    IF s = <<>> THEN tbl
    ELSE KillErrAndWaitAll(Wait(KillErr(tbl, Head(s)), Head(s)), Tail(s))

RollbackErrStops(tbl, clients, children) ==
    IF clients = <<>> THEN tbl ELSE DisconnectErr(tbl, Head(clients))

\* Lines 359-366 when every disconnect and every kill returns an error: the
\* results are dropped (let _ =), both loops run to their end.
RollbackErr(tbl, clients, children) ==
    KillErrAndWaitAll(DisconnectErrAll(tbl, clients), children)

\* The panic of the worker is resumed in the caller: the call ends without a
\* result.
AfterLaunchUnwinds(me, r, id) ==
    IF r.ok
    THEN [me EXCEPT !.new_clients = Append(@, id),
                    !.new_children = Append(@, id),
                    !.idx = @ + 1, !.attempts = @ + 1,
                    !.pc = IF me.idx + 1 = me.ncfg THEN "attach" ELSE "launch"]
    ELSE IF r.cause = "join" THEN [me EXCEPT !.pc = "crashed", !.attempts = @ + 1]
    ELSE [me EXCEPT !.pc = "done", !.attempts = @ + 1,
                    !.result = StartFailed(LaunchError(r.cause, me.idx))]

AfterLaunchContinues(me, r, id) ==
    [me EXCEPT !.new_clients = IF r.ok THEN Append(@, id) ELSE @,
               !.new_children = IF r.ok THEN Append(@, id) ELSE @,
               !.idx = @ + 1, !.attempts = @ + 1,
               !.pc = IF me.idx + 1 = me.ncfg THEN "attach" ELSE "launch"]

\* Lines 328-370, the call after start_single_agent has answered r for agent
\* idx: the pair (handle id) is pushed and the loop goes on to the next index
\* or ends, or the error is returned.
AfterLaunch(me, r, id) ==
    IF r.ok
    THEN [me EXCEPT !.new_clients = Append(@, id),
                    !.new_children = Append(@, id),
                    !.idx = @ + 1, !.attempts = @ + 1,
                    !.pc = IF me.idx + 1 = me.ncfg THEN "attach" ELSE "launch"]
    ELSE [me EXCEPT !.pc = "done", !.attempts = @ + 1,
                    !.result = StartFailed(LaunchError(r.cause, me.idx))]

\* Lines 328-370, one iteration of the launch loop: start_single_agent for
\* agent idx, then push the pair, or roll back and return the error.
\* a.teardown: the disconnect and kill calls of the rollback succeed.  If
\* they fail, child.wait() returns only once the child has terminated by
\* itself.
ST_Launch(c, a) ==
    /\ UNCHANGED rest
    /\ call[c].pc = "launch"
    /\ UNCHANGED <<instances, resources, controllers, taskers, nextJob, thr>>
    /\ LET me == call[c]
           r == StartSingleAgent(me.tcp, a)
           id == Len(agents) + 1
       IN /\ r.spawned => Len(agents) < MaxLaunches
          /\ ~a.teardown =>
                /\ ~r.ok /\ me.new_clients # <<>>
                /\ \A k \in DOMAIN me.new_children :
                      agents[me.new_children[k]].status # "running"
    /\ LET me == call[c]
           r == StartSingleAgent(me.tcp, a)
           id == Len(agents) + 1
           new == [NewAgent(me.idx) EXCEPT !.client = ClientKind(me.tcp, a)]
           spawned == IF ~r.spawned THEN agents
                      ELSE IF r.killed THEN Kill(Append(agents, new), id)
                      ELSE Append(agents, new)
       IN
       /\ agents' = IF r.ok THEN spawned
                     ELSE IF a.teardown
                     THEN Rollback(spawned, me.new_clients, me.new_children)
                     ELSE RollbackErr(spawned, me.new_clients, me.new_children)
       /\ call' = [call EXCEPT ![c] = AfterLaunch(me, r, id)]

AttachClientsOnly(rt, clients, children) == [rt EXCEPT !.agent_clients = @ \o clients]

\* Lines 375-376: both collections are extended with the batch.
AttachBatch(rt, clients, children) ==
    [rt EXCEPT !.agent_clients = @ \o clients, !.agent_children = @ \o children]

\* Lines 372-377, one hold of the registry lock: the batch is appended to the
\* instance if the instance is still in the registry.
ST_Attach(c) ==
    /\ UNCHANGED rest
    /\ call[c].pc = "attach"
    /\ LET me == call[c] IN
       /\ instances' = IF instances[me.inst].exists
                       THEN [instances EXCEPT ![me.inst] =
                               AttachBatch(@, me.new_clients, me.new_children)]
                       ELSE instances
       /\ call' = [call EXCEPT ![c] =
                     [me EXCEPT !.pc = "post",
                                !.attached = instances[me.inst].exists]]
    /\ UNCHANGED <<resources, controllers, taskers, agents, nextJob, thr>>

PushAlways(ids, ok, id) == Append(ids, id)

\* Lines 399-411: the id of a posted task is pushed, a failed post is skipped.
PushPosted(ids, ok, id) == IF ok THEN Append(ids, id) ELSE ids

\* Lines 392-412, one iteration: post task tidx; ok is the engine's answer.
ST_Post(c, ok) ==
    /\ UNCHANGED rest
    /\ call[c].pc = "post"
    /\ call[c].tidx < call[c].ntasks
    /\ ok => nextJob <= MaxJobs
    /\ nextJob' = IF ok THEN nextJob + 1 ELSE nextJob
    /\ call' = [call EXCEPT ![c] =
                  [@ EXCEPT !.task_ids = PushPosted(@, ok, nextJob),
                            !.posts = Append(@, [idx |-> call[c].tidx, ok |-> ok,
                                                 id |-> IF ok THEN nextJob ELSE 0]),
                            !.tidx = @ + 1]]
    /\ UNCHANGED <<instances, resources, controllers, taskers, agents, thr>>

\* Line 424: the cache is replaced by the ids of this call.
CacheAppends(rt, ids) == [rt EXCEPT !.task_ids = @ \o ids]

\* Line 425: instance.task_ids = task_ids.clone().

CacheTaskIds(rt, ids) == [rt EXCEPT !.task_ids = ids]

\* Lines 419-433, after the last post: cache the ids under the registry lock
\* and return them.
ST_Cache(c) ==
    /\ UNCHANGED rest
    /\ call[c].pc = "post"
    /\ call[c].tidx = call[c].ntasks
    /\ LET me == call[c] IN
       /\ instances' = IF instances[me.inst].exists
                       THEN [instances EXCEPT ![me.inst] = CacheTaskIds(@, me.task_ids)]
                       ELSE instances
       /\ call' = [call EXCEPT ![c] =
                     [me EXCEPT !.pc = "done", !.cached = instances[me.inst].exists,
                                !.result = Ok(me.task_ids)]]
    /\ UNCHANGED <<resources, controllers, taskers, agents, nextJob, thr>>

\* The caller has received the result; the call's frame is gone.
ST_Return(c) ==
    /\ UNCHANGED rest
    /\ call[c].pc = "done"
    /\ call' = [call EXCEPT ![c] = IdleCall]
    /\ UNCHANGED <<instances, resources, controllers, taskers, agents, nextJob, thr>>

\* ------------------------------------------- maa_run_task (maa_commands.rs)

\* The setup of a tasker in maa_run_task: MaaTaskerAddSink, then
\* MaaTaskerBindResource and MaaTaskerBindController; "ok", or the step that
\* failed.  The command reads none of the three results.
RunSetups == {"ok", "add_sink", "bind"}

SetUp(t, setup) == [t EXCEPT !.setupErr = IF setup = "ok" THEN "none" ELSE setup]

\* maa_run_task holds MAA_LIBRARY from entry to return; created, inited and
\* posted are the engine's answers to tasker_create, tasker_inited and
\* post_task, setup the outcome of the new tasker's setup.
RunTask(i, created, setup, inited, posted) ==
    /\ UNCHANGED rest
    /\ UNCHANGED <<resources, controllers, agents, call, thr>>
    /\ LET rt == instances[i] IN
       IF ~rt.exists \/ rt.resource = 0 \/ rt.controller = 0
          \/ (rt.tasker.id = 0 /\ ~created)
       THEN UNCHANGED <<instances, taskers, nextJob>>
       ELSE /\ nextJob <= MaxJobs
            /\ rt.tasker.id = 0 => Len(taskers) < MaxHandles
            /\ LET t == IF rt.tasker.id # 0 THEN rt.tasker
                        ELSE [id |-> Len(taskers) + 1, res |-> rt.resource,
                              ctrl |-> rt.controller]
                   ids == IF inited /\ posted THEN Append(rt.task_ids, nextJob)
                          ELSE rt.task_ids
               IN /\ rt.tasker.id # 0 => setup = "ok"
                  /\ taskers' = IF rt.tasker.id = 0
                                THEN Append(taskers, SetUp(NewTasker, setup))
                                ELSE taskers
                  /\ nextJob' = IF inited /\ posted THEN nextJob + 1 ELSE nextJob
                  /\ instances' = [instances EXCEPT ![i].tasker = t, ![i].task_ids = ids]

\* ---------------------------- single-agent maa_start_tasks (maa_commands.rs)

\* Lines 1313-1374, one hold of MAA_LIBRARY and of the registry lock: the
\* resource and the tasker (created, bound and stored if the instance has
\* none) are copied into SendPtr locals that outlive both locks.  created: the
\* engine returned a non-null tasker.
Legacy_Acquire(c, i, nt, withAgent, created) ==
    /\ UNCHANGED rest
    /\ call[c].pc = "idle"
    /\ \A u \in Calls : u < c => call[u].pc # "idle"
    /\ UNCHANGED <<resources, controllers, agents, nextJob, thr>>
    /\ LET rt == instances[i]
           me == [call[c] EXCEPT !.inst = i, !.ntasks = nt,
                                 !.ncfg = IF withAgent THEN 1 ELSE -1]
           err == IF ~rt.exists THEN "Instance not found"
                  ELSE IF rt.resource = 0 THEN "Resource not loaded"
                  ELSE IF rt.controller = 0 THEN "Controller not connected"
                  ELSE IF rt.tasker.id = 0 /\ ~created THEN "Failed to create tasker"
                  ELSE ""
           new == err = "" /\ rt.tasker.id = 0
           tasker == IF new THEN [id |-> Len(taskers) + 1, res |-> rt.resource,
                                  ctrl |-> rt.controller]
                     ELSE rt.tasker
       IN /\ new => Len(taskers) < MaxHandles
          /\ taskers' = IF new THEN Append(taskers, NewTasker) ELSE taskers
          /\ instances' = IF new THEN [instances EXCEPT ![i].tasker = tasker]
                          ELSE instances
          /\ call' = [call EXCEPT ![c] =
                        IF err # ""
                        THEN [me EXCEPT !.pc = "done", !.result = Err(err)]
                        ELSE [me EXCEPT !.pc = IF withAgent THEN "l_agent" ELSE "l_submit",
                                        !.res = rt.resource, !.ctrl = rt.controller,
                                        !.tasker = tasker, !.createdTasker = new]]

\* What the engine may do when it is called on a handle: answer, or, if the
\* handle was destroyed before (the pointer dangles), anything at all, which
\* includes bringing the process down.
MayCrash(destroyed, crash) == crash => destroyed

\* The engine's and the OS's answers while the agent client is made and its
\* process started: all well, or the step that fails.
LegacyAgentSteps == {"ok", "create", "identifier", "spawn"}

\* Lines 1380-1511: under MAA_LIBRARY the agent client is created, the
\* resource copied at the start is bound to it (line 1409) and its identifier
\* read; then the child process is spawned.  A failure returns the error; the
\* client is destroyed if the identifier is missing.
Legacy_Agent(c, step, crash) ==
    /\ UNCHANGED rest
    /\ call[c].pc = "l_agent"
    /\ UNCHANGED <<instances, resources, controllers, taskers, nextJob, thr>>
    /\ LET me == call[c]
           destroyed == step # "create" /\ resources[me.res].destroys # 0
           used == [me EXCEPT !.stale = IF destroyed THEN "resource" ELSE @]
           id == Len(agents) + 1
       IN /\ MayCrash(destroyed, crash)
          /\ step = "ok" /\ ~crash => Len(agents) < MaxLaunches
          /\ agents' = IF step = "ok" /\ ~crash THEN Append(agents, NewAgent(0))
                       ELSE agents
          /\ call' = [call EXCEPT ![c] =
                        IF crash THEN [used EXCEPT !.pc = "crashed"]
                        ELSE IF step = "create"
                        THEN [used EXCEPT !.pc = "done",
                                          !.result = Err("Failed to create agent client")]
                        ELSE IF step = "identifier"
                        THEN [used EXCEPT !.pc = "done",
                                          !.result = Err("Failed to get agent identifier")]
                        ELSE IF step = "spawn"
                        THEN [used EXCEPT !.pc = "done",
                                          !.result = Err("Failed to start agent process")]
                        ELSE [used EXCEPT !.pc = "l_connect", !.attempts = 1,
                                          !.new_clients = <<id>>,
                                          !.new_children = <<id>>]]

\* The answers of the connect handshake: connected, refused, or the blocking
\* task panicked.
LegacyConnectAnswers == {"yes", "no", "panic"}

\* Lines 1612-1697: set_timeout and connect on the call's own client.  On
\* refusal the child is stored in the instance and the client destroyed
\* (1655-1678); on success client and child are stored (1684-1693), each store
\* only if the instance is still registered.
Legacy_Connect(c, connected) ==
    /\ UNCHANGED rest
    /\ call[c].pc = "l_connect"
    /\ UNCHANGED <<resources, controllers, taskers, nextJob, thr>>
    /\ LET me == call[c]
           id == me.new_clients[1]
           there == instances[me.inst].exists
       IN /\ agents' = IF connected = "no" THEN [agents EXCEPT ![id].destroys = @ + 1]
                       ELSE agents
          /\ instances' =
                IF ~there \/ connected = "panic" THEN instances
                ELSE IF connected = "no"
                THEN [instances EXCEPT ![me.inst].agent_children = <<id>>]
                ELSE [instances EXCEPT ![me.inst].agent_clients = <<id>>,
                                       ![me.inst].agent_children = <<id>>]
          /\ call' = [call EXCEPT ![c] =
                        IF connected = "panic"
                        THEN [me EXCEPT !.pc = "done",
                                        !.result = Err("Agent connect task panicked")]
                        ELSE IF connected = "no"
                        THEN [me EXCEPT !.pc = "done",
                                        !.result = Err("Failed to connect to agent")]
                        ELSE [me EXCEPT !.pc = "l_submit", !.attached = there]]

\* Lines 1703-1757, one hold of MAA_LIBRARY: maa_tasker_inited and then
\* maa_tasker_post_task for every task, all on the tasker copied at the
\* start.  oks[k]: the k-th post returned a valid id.
Legacy_Submit(c, inited, oks, crash) ==
    /\ UNCHANGED rest
    /\ call[c].pc = "l_submit"
    /\ oks \in [1..call[c].ntasks -> BOOLEAN]
    /\ UNCHANGED <<instances, resources, controllers, taskers, agents, thr>>
    /\ LET me == call[c]
           destroyed == taskers[me.tasker.id].destroys # 0
           used == [me EXCEPT !.stale = IF destroyed THEN "tasker" ELSE @,
                              !.initedAns = IF inited THEN "yes" ELSE "no"]
           n == IF inited /\ ~crash THEN Cardinality({k \in DOMAIN oks : oks[k]}) ELSE 0
       IN /\ MayCrash(destroyed, crash)
          /\ nextJob + n <= MaxJobs + 1
          /\ nextJob' = nextJob + n
          /\ call' = [call EXCEPT ![c] =
                        IF crash THEN [used EXCEPT !.pc = "crashed"]
                        ELSE IF ~inited
                        THEN [used EXCEPT !.pc = "done",
                                          !.result = Err("Tasker not properly initialized")]
                        ELSE [used EXCEPT !.pc = "l_cache", !.tidx = me.ntasks,
                                          !.task_ids = [j \in 1..n |-> nextJob + j - 1]]]

\* Lines 1766-1790: the ids are cached in the instance, if it is still
\* registered, and returned.
Legacy_Cache(c) ==
    /\ UNCHANGED rest
    /\ call[c].pc = "l_cache"
    /\ LET me == call[c] IN
       /\ instances' = IF instances[me.inst].exists
                       THEN [instances EXCEPT ![me.inst].task_ids = me.task_ids]
                       ELSE instances
       /\ call' = [call EXCEPT ![c] =
                     [me EXCEPT !.pc = "done", !.cached = instances[me.inst].exists,
                                !.result = Ok(me.task_ids)]]
    /\ UNCHANGED <<resources, controllers, taskers, agents, nextJob, thr>>

\* ------------------------------------- agent shutdown (commands/maa_agent.rs)

TakeClientsOnly(rt) == [rt EXCEPT !.agent_clients = <<>>]

\* Lines 449-452: std::mem::take of both collections.
TakeAgents(rt) == [rt EXCEPT !.agent_clients = <<>>, !.agent_children = <<>>]

StartChildKeepsClock(th, n) ==
    IF n > Len(th.children) THEN IdleThread
    ELSE [th EXCEPT !.pc = "poll", !.i = n, !.exited = FALSE, !.polls = 0]

\* Where the spawned thread starts: the disconnect loop, or the first child
\* when there is no client.
StartChild(th, n) ==
    IF n > Len(th.children) THEN IdleThread
    ELSE [th EXCEPT !.pc = "poll", !.i = n, !.elapsed = 0, !.exited = FALSE,
                    !.polls = 0]

StopAgentAlways(i, t) ==
    /\ UNCHANGED rest
    /\ instances[i].exists
    /\ thr[t].pc = "idle"
    /\ instances' = [instances EXCEPT ![i] = TakeAgents(@)]
    /\ thr' = [thr EXCEPT ![t] =
                 [IdleThread EXCEPT !.pc = "disconnect",
                                    !.clients = instances[i].agent_clients,
                                    !.children = instances[i].agent_children]]
    /\ UNCHANGED <<resources, controllers, taskers, agents, nextJob, call>>

StopAgentInline(i, t) ==
    /\ UNCHANGED rest
    /\ instances[i].exists
    /\ thr[t].pc = "idle"
    /\ instances[i].agent_clients # <<>>
    /\ instances' = [instances EXCEPT ![i] = TakeAgents(@)]
    /\ agents' = DisconnectAll(agents, instances[i].agent_clients)
    /\ thr' = [thr EXCEPT ![t] =
                 StartChild([IdleThread EXCEPT !.clients = instances[i].agent_clients,
                                               !.children = instances[i].agent_children], 1)]
    /\ UNCHANGED <<resources, controllers, taskers, nextJob, call>>

\* A maa_stop_agent that also takes the batch which call 1 is launching
\* for the same instance.
StopAgentCancels(i, t) ==
    /\ UNCHANGED rest
    /\ instances[i].exists
    /\ thr[t].pc = "idle"
    /\ LET rt == instances[i]
           hit == call[1].inst = i /\ call[1].pc \in {"launch", "attach"}
           more == IF hit THEN call[1].new_clients ELSE <<>>
       IN /\ rt.agent_clients \o more # <<>>
          /\ instances' = [instances EXCEPT ![i] = TakeAgents(@)]
          /\ call' = IF hit THEN [call EXCEPT ![1].new_clients = <<>>,
                                              ![1].new_children = <<>>]
                     ELSE call
          /\ thr' = [thr EXCEPT ![t] =
                       [IdleThread EXCEPT !.pc = "disconnect",
                                          !.clients = rt.agent_clients \o more,
                                          !.children = rt.agent_children \o more]]
    /\ UNCHANGED <<resources, controllers, taskers, agents, nextJob>>

\* maa_stop_agent (lines 439-509): take the collections under the registry
\* lock and hand them to a background thread t, unless both are empty.  For
\* an instance that is not registered the command returns "Instance not found"
\* (line 446) and nothing is taken.
StopAgent(i, t) ==
    /\ UNCHANGED rest
    /\ LET rt == instances[i] IN
       /\ instances' = IF rt.exists THEN [instances EXCEPT ![i] = TakeAgents(@)]
                       ELSE instances
       /\ IF ~rt.exists \/ (rt.agent_clients = <<>> /\ rt.agent_children = <<>>)
          THEN UNCHANGED thr
          ELSE /\ thr[t].pc = "idle"
               /\ \A u \in Threads : u < t => thr[u].pc # "idle"
               /\ thr' = [thr EXCEPT ![t] =
                            LET th == [IdleThread EXCEPT !.clients = rt.agent_clients,
                                                         !.children = rt.agent_children]
                            IN IF th.clients = <<>> THEN StartChild(th, 1)
                               ELSE [th EXCEPT !.pc = "disconnect"]]
    /\ UNCHANGED <<resources, controllers, taskers, agents, nextJob, call>>

AfterDisconnectAborts(th, failed) ==
    IF failed THEN IdleThread
    ELSE IF th.ci = Len(th.clients) THEN StartChild(th, 1)
    ELSE [th EXCEPT !.ci = @ + 1]

\* Line 469, let _ = client.disconnect(): the loop goes on to the next client
\* whatever the call returned.
AfterDisconnect(th, failed) ==
    IF th.ci = Len(th.clients) THEN StartChild(th, 1)
    ELSE [th EXCEPT !.ci = @ + 1]

\* Lines 468-470, one iteration: client.disconnect(), its error ignored.
\* failed: the call returned Err.
ThrDisconnect(t, failed) ==
    /\ UNCHANGED rest
    /\ thr[t].pc = "disconnect"
    /\ LET th == thr[t] IN
       /\ agents' = IF failed THEN DisconnectErr(agents, th.clients[th.ci])
                     ELSE Disconnect(agents, th.clients[th.ci])
       /\ thr' = [thr EXCEPT ![t] = AfterDisconnect(th, failed)]
    /\ UNCHANGED <<instances, resources, controllers, taskers, nextJob, call>>

InWindowInclusive(elapsed) == elapsed <= TimeoutMs

\* Line 481: the loop runs while start.elapsed() < timeout.
InWindow(elapsed) == elapsed < TimeoutMs

\* Lines 481-495, the loop test and child.try_wait().  failed: try_wait
\* returned Err.
ThrPoll(t, failed) ==
    /\ UNCHANGED rest
    /\ thr[t].pc = "poll"
    /\ LET th == thr[t]
           a == th.children[th.i]
       IN
       IF ~InWindow(th.elapsed)
       THEN /\ ~failed
            /\ thr' = [thr EXCEPT ![t].pc = "finish"]
            /\ UNCHANGED agents
       ELSE IF failed
       THEN /\ thr' = [thr EXCEPT ![t].pc = "finish", ![t].polls = @ + 1]
            /\ agents' = [agents EXCEPT ![a].pollErr = TRUE]
       ELSE IF agents[a].status # "running"
       THEN /\ thr' = [thr EXCEPT ![t].pc = "finish", ![t].exited = TRUE,
                                  ![t].polls = @ + 1]
            /\ agents' = [agents EXCEPT ![a].sawExit = TRUE, ![a].status = "reaped"]
       ELSE /\ thr' = [thr EXCEPT ![t].pc = "sleep", ![t].polls = @ + 1]
            /\ UNCHANGED agents
    /\ UNCHANGED <<instances, resources, controllers, taskers, nextJob, call>>

\* Line 488: thread::sleep(100 ms).
ThrSleep(t) ==
    /\ UNCHANGED rest
    /\ thr[t].pc = "sleep"
    /\ thr' = [thr EXCEPT ![t].pc = "poll", ![t].elapsed = @ + PollMs]
    /\ UNCHANGED <<instances, resources, controllers, taskers, agents, nextJob, call>>

FinishChildKills(tbl, a, exited) == KillAndWait(tbl, a)

\* Lines 497-504: a child not seen exited is killed and reaped.
FinishChild(tbl, a, exited) == IF exited THEN tbl ELSE KillAndWait(tbl, a)

\* Lines 497-504 when child.kill() returns an error: child.wait() is called
\* all the same.
FinishChildKillErr(tbl, a, exited) == IF exited THEN tbl ELSE Wait(KillErr(tbl, a), a)

\* Lines 497-505: the end of one child's turn; then the next child's turn
\* begins.  failed: child.kill() returned Err; child.wait() then returns
\* only once the child has terminated by itself.
ThrFinish(t, failed) ==
    /\ UNCHANGED rest
    /\ thr[t].pc = "finish"
    /\ LET th == thr[t]
           a == th.children[th.i]
       IN
       /\ failed => ~th.exited /\ agents[a].status # "running"
       /\ agents' = IF failed THEN FinishChildKillErr(agents, a, th.exited)
                     ELSE FinishChild(agents, a, th.exited)
       /\ thr' = [thr EXCEPT ![t] = StartChild(th, th.i + 1)]
    /\ UNCHANGED <<instances, resources, controllers, taskers, nextJob, call>>

\* The thread that is currently waiting for child a, if any.
Waiting(t, a) ==
    /\ thr[t].pc \in {"poll", "sleep", "finish"}
    /\ thr[t].children[thr[t].i] = a

\* A try_wait on child a is still to come in the window thread t has opened,
\* or will open, for it.
PollToCome(t, a) ==
    LET th == thr[t] IN
    IF ~Waiting(t, a) THEN TRUE
    ELSE IF th.pc = "poll" THEN InWindow(th.elapsed)
    ELSE IF th.pc = "sleep" THEN InWindow(th.elapsed + PollMs)
    ELSE FALSE

\* The environment: a running child process terminates by itself: "early" if
\* a try_wait of its wait window is still to come, "last" if its window is
\* still open by the clock but no try_wait is to come, "late" otherwise.
ChildExit(a) ==
    /\ UNCHANGED rest
    /\ a \in DOMAIN agents
    /\ agents[a].status = "running"
    /\ agents' = [agents EXCEPT
                    ![a].status = "exited",
                    ![a].exit =
                        IF \A t \in Threads : PollToCome(t, a) THEN "early"
                        ELSE IF \A t \in Threads :
                                   Waiting(t, a) => InWindow(thr[t].elapsed)
                        THEN "last" ELSE "late"]
    /\ UNCHANGED <<instances, resources, controllers, taskers, nextJob, call, thr>>

\* ------------------------------------ snapshot queries (maa_commands.rs)

\* The answers of MaaControllerConnected, MaaResourceLoaded, MaaTaskerInited
\* and MaaTaskerRunning for the handles of one instance.
EngineFlags ==
    [connected : BOOLEAN, resource_loaded : BOOLEAN, tasker_inited : BOOLEAN,
     is_running : BOOLEAN]

\* An InstanceState that reports a handle the instance holds as connected,
\* loaded, inited and running without asking the engine.
InstanceStateHeld(rt, e) ==
    [connected |-> rt.controller # 0, resource_loaded |-> rt.resource # 0,
     tasker_inited |-> rt.tasker.id # 0, is_running |-> rt.tasker.id # 0,
     task_ids |-> rt.task_ids]

\* Lines 1993-2015 and 2039-2063: each flag is map_or(false, engine call on the
\* handle), task_ids is a clone of the instance's.
InstanceStateOf(rt, e) ==
    [connected |-> rt.controller # 0 /\ e.connected,
     resource_loaded |-> rt.resource # 0 /\ e.resource_loaded,
     tasker_inited |-> rt.tasker.id # 0 /\ e.tasker_inited,
     is_running |-> rt.tasker.id # 0 /\ e.is_running,
     task_ids |-> rt.task_ids]

\* The engine calls made for one InstanceState: one on the controller, one on
\* the resource and two on the tasker, each only if the instance holds the
\* handle.
AskedOf(rt) ==
    (IF rt.controller # 0 THEN {<<"controller", rt.controller>>} ELSE {})
    \cup (IF rt.resource # 0 THEN {<<"resource", rt.resource>>} ELSE {})
    \cup (IF rt.tasker.id # 0 THEN {<<"tasker", rt.tasker.id>>} ELSE {})

\* The library is missing only before the first handle is created.
LibraryState(loaded) ==
    ~loaded => resources = <<>> /\ controllers = <<>> /\ taskers = <<>>

\* maa_get_instance_state (lines 1977-2016), under MAA_LIBRARY and the
\* registry lock.  loaded: MAA_LIBRARY holds a library; e: the engine's answers.
GetInstanceState(i, loaded, e) ==
    /\ LibraryState(loaded)
    /\ UNCHANGED <<instances, resources, controllers, taskers, agents, nextJob, call, thr>>
    /\ UNCHANGED <<pipes, aux>>
    /\ LET rt == instances[i]
           r == [NoReply EXCEPT !.cmd = "maa_get_instance_state"]
       IN reply' =
             IF ~loaded
             THEN [r EXCEPT !.kind = "Err", !.msg = "MaaFramework not initialized"]
             ELSE IF ~rt.exists
             THEN [r EXCEPT !.kind = "Err", !.msg = "Instance not found"]
             ELSE [r EXCEPT !.kind = "Ok",
                            !.states = [j \in {i} |-> InstanceStateOf(rt, e)],
                            !.engine = [j \in {i} |-> e],
                            !.asked = AskedOf(rt)]

\* maa_get_all_states (lines 2020-2073): one InstanceState for every instance
\* in the registry, none if the library is missing.  es: the engine's answers
\* for each instance.
GetAllStates(loaded, es) ==
    /\ LibraryState(loaded)
    /\ UNCHANGED <<instances, resources, controllers, taskers, agents, nextJob, call, thr>>
    /\ UNCHANGED <<pipes, aux>>
    /\ LET ids == IF loaded THEN {j \in DOMAIN instances : instances[j].exists} ELSE {}
       IN reply' =
             [NoReply EXCEPT
                !.cmd = "maa_get_all_states", !.kind = "Ok",
                !.states = [j \in ids |-> InstanceStateOf(instances[j], es[j])],
                !.engine = [j \in ids |-> es[j]],
                !.asked = UNION {AskedOf(instances[j]) : j \in ids}]

\* ------------------------- agent output readers (commands/maa_agent.rs)

\* What read_until returns: a line, Ok(0) at the end of the stream, or Err.
ReadOutcomes == {"line", "eof", "err"}

\* One write(2) made by writeln!(file, "{} [stream] {}", timestamp, line): the
\* formatted record reaches the file in pieces, here the prefix with the
\* stream tag and the line with its newline.  k is the number of the line in
\* its stream.
Piece(s, k, part) == [stream |-> s, k |-> k, part |-> part]

\* Lines 153-154 and 167 (183-184 and 197): read_until on stream s.  A line
\* is handled, Ok(0) and Err leave the loop.
PipeRead(s, outcome) ==
    /\ readers[s].pc = "read"
    /\ outcome = "line" => readers[s].n < MaxLines
    /\ readers' = [readers EXCEPT ![s] =
                     IF outcome = "line" THEN [@ EXCEPT !.pc = "lock", !.n = @ + 1]
                     ELSE [@ EXCEPT !.pc = "stopped", !.stop = outcome]]
    /\ UNCHANGED <<core, reply, aux, logfile, events>>

\* A reader that writes without taking the mutex.
PipeLockFree(s) ==
    /\ readers[s].pc = "lock"
    /\ readers' = [readers EXCEPT ![s].pc = IF logfile.opened THEN "prefix" ELSE "emit"]
    /\ UNCHANGED <<core, reply, aux, logfile, events>>

\* Lines 158-159 (188-189): lf.lock(), which waits for the mutex; with no file
\* (the open failed) the guard is dropped at once and nothing is written.
PipeLock(s) ==
    /\ readers[s].pc = "lock"
    /\ logfile.owner = "none"
    /\ IF logfile.opened
       THEN /\ logfile' = [logfile EXCEPT !.owner = s]
            /\ readers' = [readers EXCEPT ![s].pc = "prefix"]
       ELSE /\ UNCHANGED logfile
            /\ readers' = [readers EXCEPT ![s].pc = "emit"]
    /\ UNCHANGED <<core, reply, aux, events>>

\* Lines 160-161 (190-191), the first write of the record.
PipePrefix(s) ==
    /\ readers[s].pc = "prefix"
    /\ logfile' = [logfile EXCEPT !.data = Append(@, Piece(s, readers[s].n, "prefix"))]
    /\ readers' = [readers EXCEPT ![s].pc = "line"]
    /\ UNCHANGED <<core, reply, aux, events>>

\* Lines 161-163 (191-193), the last write of the record; the guard is dropped
\* at the end of the block.
PipeLine(s) ==
    /\ readers[s].pc = "line"
    /\ logfile' = [logfile EXCEPT !.data = Append(@, Piece(s, readers[s].n, "line")),
                                  !.owner = IF @ = s THEN "none" ELSE @]
    /\ readers' = [readers EXCEPT ![s].pc = "emit"]
    /\ UNCHANGED <<core, reply, aux, events>>

\* Line 165 (195): emit_agent_output with the stream's tag; the loop then
\* reads again.
PipeEmit(s) ==
    /\ readers[s].pc = "emit"
    /\ events' = Append(events, [stream |-> s, k |-> readers[s].n])
    /\ readers' = [readers EXCEPT ![s].pc = "read"]
    /\ UNCHANGED <<core, reply, aux, logfile>>

\* ------------------------ single-agent maa_stop_agent (maa_commands.rs)

\* Lines 1799-1837: under the registry lock agent_client and agent_child are
\* taken out of the instance; if there was either, a thread is spawned that
\* owns them.  An instance that is not registered gets "Instance not found".
Legacy_StopAgent(i, t) ==
    /\ UNCHANGED rest
    /\ UNCHANGED <<resources, controllers, taskers, agents, nextJob, call>>
    /\ LET rt == instances[i] IN
       IF ~rt.exists \/ (rt.agent_clients = <<>> /\ rt.agent_children = <<>>)
       THEN UNCHANGED <<instances, thr>>
       ELSE /\ thr[t].pc = "idle"
            /\ instances' = [instances EXCEPT ![i] = TakeAgents(@)]
            /\ thr' = [thr EXCEPT ![t] =
                         [IdleThread EXCEPT
                            !.clients = rt.agent_clients, !.children = rt.agent_children,
                            !.pc = IF rt.agent_clients # <<>> THEN "l_disconnect"
                                   ELSE "l_wait"]]

\* Lines 1814-1826: under MAA_LIBRARY the client is disconnected and destroyed.
Legacy_ThrDisconnect(t) ==
    /\ UNCHANGED rest
    /\ thr[t].pc = "l_disconnect"
    /\ LET a == thr[t].clients[1] IN
       agents' = [Disconnect(agents, a) EXCEPT ![a].destroys = @ + 1]
    /\ thr' = [thr EXCEPT ![t] = IF thr[t].children = <<>> THEN IdleThread
                                 ELSE [@ EXCEPT !.pc = "l_wait"]]
    /\ UNCHANGED <<instances, resources, controllers, taskers, nextJob, call>>

\* Lines 1829-1833: child.wait(), which returns once the child has terminated;
\* the thread then ends.
Legacy_ThrWait(t) ==
    /\ UNCHANGED rest
    /\ thr[t].pc = "l_wait"
    /\ agents[thr[t].children[1]].status # "running"
    /\ agents' = Wait(agents, thr[t].children[1])
    /\ thr' = [thr EXCEPT ![t] = IdleThread]
    /\ UNCHANGED <<instances, resources, controllers, taskers, nextJob, call>>

\* ------------------------------------- command results (maa_commands.rs)

\* The error text a command returns, "" for Ok, on the runtime rt of its
\* instance_id; created, inited and posted are the engine's answers.
NotFound == "Instance not found"

\* maa_connect_controller: the controller is created (771-774) and the
\* connection posted (798-806) before the instance is looked up (812-815).
ConnectControllerError(rt, created, posted) ==
    IF ~created THEN "Failed to create controller"
    ELSE IF ~posted THEN "Failed to post connection"
    ELSE IF ~rt.exists THEN NotFound ELSE ""

\* maa_load_resource (882-891); a bundle that cannot be posted is skipped.
LoadResourceError(rt, created) ==
    IF ~rt.exists THEN NotFound
    ELSE IF rt.resource = 0 /\ ~created THEN "Failed to create resource" ELSE ""

\* maa_run_task (1006-1063).
RunTaskError(rt, created, inited, posted) ==
    IF ~rt.exists THEN NotFound
    ELSE IF rt.resource = 0 THEN "Resource not loaded"
    ELSE IF rt.controller = 0 THEN "Controller not connected"
    ELSE IF rt.tasker.id = 0 /\ ~created THEN "Failed to create tasker"
    ELSE IF ~inited THEN "Tasker not properly initialized"
    ELSE IF ~posted THEN "Failed to post task" ELSE ""

\* maa_stop_task (1118-1126), and likewise maa_get_task_status (1093-1094) and
\* maa_override_pipeline (1153-1154): the instance, then its tasker.
StopTaskError(rt) ==
    IF ~rt.exists THEN NotFound
    ELSE IF rt.tasker.id = 0 THEN "Tasker not created" ELSE ""

\* maa_destroy_resource (964-967), both maa_stop_agent (maa_commands.rs 1800-1802,
\* commands/maa_agent.rs 443-446), maa_get_connection_status (846),
\* maa_is_resource_loaded (943) and maa_is_running (1178): the lookup is the
\* only step that can fail.
LookupError(rt) == IF ~rt.exists THEN NotFound ELSE ""

\* ------------------------------ the two global locks (maa_commands.rs)

\* MAA_LIBRARY.lock() and state.instances.lock() wait until the lock is free.
\* In the steps below MAA_LIBRARY holds a library and no lock is poisoned.
Free(lock) == mutex[lock] = "free"

\* maa_destroy_instance, lines 648-649: the registry lock is taken and the
\* instance removed.  The removed InstanceRuntime is a temporary of the
\* statement, dropped at its end while the guard `instances` is alive.  An id
\* that is not registered removes nothing, and the guard is released on return.
Destroy_Remove(i) ==
    /\ cmds["destroy"].pc = "idle"
    /\ Free("instances")
    /\ IF instances[i].exists
       THEN /\ instances' = Remove(instances, i)
            /\ mutex' = [mutex EXCEPT !.instances = "destroy"]
            /\ cmds' = [cmds EXCEPT !["destroy"] =
                          [NoCmd EXCEPT !.pc = "drop", !.id = i,
                                        !.removed = <<instances[i]>>]]
       ELSE UNCHANGED <<instances, mutex, cmds>>
    /\ UNCHANGED <<resources, controllers, taskers, agents, nextJob, call, thr>>
    /\ UNCHANGED <<reply, pipes, download>>

\* InstanceRuntime::drop, lines 211-238, then lines 651-658: drop takes
\* MAA_LIBRARY, releases the handles and lets go of it; maa_destroy_instance
\* returns and its registry guard is released.
Destroy_Drop ==
    /\ cmds["destroy"].pc = "drop"
    /\ Free("library")
    /\ DropRuntime(cmds["destroy"].removed[1])
    /\ mutex' = [mutex EXCEPT !.instances = "free"]
    /\ cmds' = [cmds EXCEPT !["destroy"] = NoCmd]
    /\ UNCHANGED <<instances, nextJob, call, thr>>
    /\ UNCHANGED <<reply, pipes, download>>

\* maa_run_task, lines 1003-1004: `guard` holds MAA_LIBRARY until the
\* function returns.
Run_LockLibrary(i) ==
    /\ cmds["run"].pc = "idle"
    /\ Free("library")
    /\ nextJob <= MaxJobs
    /\ Len(taskers) < MaxHandles
    /\ mutex' = [mutex EXCEPT !.library = "run"]
    /\ cmds' = [cmds EXCEPT !["run"] = [NoCmd EXCEPT !.pc = "registry", !.id = i]]
    /\ UNCHANGED core
    /\ UNCHANGED <<reply, pipes, download>>

\* Lines 1006-1038: under the registry lock the instance is looked up and its
\* tasker created if it has none; an error returns, which releases both
\* guards.
Run_Acquire(created, setup) ==
    /\ cmds["run"].pc = "registry"
    /\ Free("instances")
    /\ LET i == cmds["run"].id
           rt == instances[i]
       IN IF RunTaskError(rt, created, TRUE, TRUE) # ""
          THEN /\ mutex' = [mutex EXCEPT !.library = "free"]
               /\ cmds' = [cmds EXCEPT !["run"] = NoCmd]
               /\ UNCHANGED <<instances, taskers>>
          ELSE /\ rt.tasker.id # 0 => setup = "ok"
               /\ taskers' = IF rt.tasker.id = 0
                             THEN Append(taskers, SetUp(NewTasker, setup))
                             ELSE taskers
               /\ instances' =
                     [instances EXCEPT ![i].tasker =
                        IF rt.tasker.id # 0 THEN rt.tasker
                        ELSE [id |-> Len(taskers) + 1, res |-> rt.resource,
                              ctrl |-> rt.controller]]
               /\ cmds' = [cmds EXCEPT !["run"].pc = "post"]
               /\ UNCHANGED mutex
    /\ UNCHANGED <<resources, controllers, agents, nextJob, call, thr>>
    /\ UNCHANGED <<reply, pipes, download>>

\* Lines 1041-1060: maa_tasker_inited and maa_tasker_post_task, no registry
\* lock held.
Run_Post(inited, posted) ==
    /\ cmds["run"].pc = "post"
    /\ IF inited /\ posted
       THEN /\ nextJob' = nextJob + 1
            /\ cmds' = [cmds EXCEPT !["run"].pc = "cache", !["run"].job = nextJob]
            /\ UNCHANGED mutex
       ELSE /\ mutex' = [mutex EXCEPT !.library = "free"]
            /\ cmds' = [cmds EXCEPT !["run"] = NoCmd]
            /\ UNCHANGED nextJob
    /\ UNCHANGED <<instances, resources, controllers, taskers, agents, call, thr>>
    /\ UNCHANGED <<reply, pipes, download>>

\* Lines 1063-1070: the registry lock is taken again, the task id cached if
\* the instance is still there, and the command returns.
Run_Cache ==
    /\ cmds["run"].pc = "cache"
    /\ Free("instances")
    /\ LET i == cmds["run"].id IN
       instances' = IF instances[i].exists
                    THEN [instances EXCEPT ![i].task_ids = Append(@, cmds["run"].job)]
                    ELSE instances
    /\ mutex' = [mutex EXCEPT !.library = "free"]
    /\ cmds' = [cmds EXCEPT !["run"] = NoCmd]
    /\ UNCHANGED <<resources, controllers, taskers, agents, nextJob, call, thr>>
    /\ UNCHANGED <<reply, pipes, download>>

\* maa_get_connection_status (842-843) and maa_get_instance_state
\* (1985-1986): MAA_LIBRARY is taken first.
Query_LockLibrary(i) ==
    /\ cmds["query"].pc = "idle"
    /\ Free("library")
    /\ mutex' = [mutex EXCEPT !.library = "query"]
    /\ cmds' = [cmds EXCEPT !["query"] = [NoCmd EXCEPT !.pc = "registry", !.id = i]]
    /\ UNCHANGED core
    /\ UNCHANGED <<reply, pipes, download>>

\* Lines 845-846 and 1988-2015: the registry lock is taken, the instance
\* read, and both guards are released on return.
Query_Read(e) ==
    /\ cmds["query"].pc = "registry"
    /\ Free("instances")
    /\ LET i == cmds["query"].id
           rt == instances[i]
           r == [NoReply EXCEPT !.cmd = "maa_get_instance_state"]
       IN reply' =
             IF ~rt.exists
             THEN [r EXCEPT !.kind = "Err", !.msg = "Instance not found"]
             ELSE [r EXCEPT !.kind = "Ok",
                            !.states = [j \in {i} |-> InstanceStateOf(rt, e)],
                            !.engine = [j \in {i} |-> e],
                            !.asked = AskedOf(rt)]
    /\ mutex' = [mutex EXCEPT !.library = "free"]
    /\ cmds' = [cmds EXCEPT !["query"] = NoCmd]
    /\ UNCHANGED core
    /\ UNCHANGED <<pipes, download>>

\* --------------------------------------------- downloads (maa_commands.rs)

\* A call that has started and not returned.
Downloading(d) == download.calls[d].pc \notin {"idle", "done"}

\* DOWNLOAD_CANCELLED.load() || CURRENT_DOWNLOAD_SESSION.load() != session_id
\* (lines 2643-2644 and 2694-2695).
CancelCheck(dl, d) == dl.cancelled \/ dl.session # dl.calls[d].session_id

\* Lines 2646-2650 and 2700-2703: the file is closed, the temp file removed
\* and the cancelled error returned.
ReturnCancelled(dl, d) ==
    [dl EXCEPT !.temp = "absent",
               !.calls[d].pc = "done", !.calls[d].result = "cancelled"]

\* Line 2597: session_id = CURRENT_DOWNLOAD_SESSION.fetch_add(1) + 1.
DL_Begin(d) ==
    /\ download.calls[d].pc = "idle"
    /\ download.session < MaxSessions
    /\ download' = [download EXCEPT
                      !.session = @ + 1,
                      !.calls[d] = [NoDownload EXCEPT !.pc = "reset",
                                                      !.session_id = download.session + 1]]
    /\ UNCHANGED <<core, reply, pipes, mutex, cmds>>

\* Line 2601: DOWNLOAD_CANCELLED.store(false).
DL_Reset(d) ==
    /\ download.calls[d].pc = "reset"
    /\ download' = [download EXCEPT !.cancelled = FALSE, !.calls[d].pc = "request"]
    /\ UNCHANGED <<core, reply, pipes, mutex, cmds>>

\* Lines 2606-2631: the directory, the client, the request and its status;
\* any failure returns its error.  After a successful response the temp file
\* is created (truncated if it exists).
DL_Request(d, ok) ==
    /\ download.calls[d].pc = "request"
    /\ download' = IF ok
                   THEN [download EXCEPT !.temp = "present", !.calls[d].pc = "stream"]
                   ELSE [download EXCEPT !.calls[d].pc = "done",
                                         !.calls[d].result = "error"]
    /\ UNCHANGED <<core, reply, pipes, mutex, cmds>>

\* Lines 2641-2693, one turn of the loop.  next: what stream.next().await
\* gives, "chunk", "err" (Some(Err)) or "end" (None).  A chunk or an error is
\* looked at only after the cancel check; the end of the stream leaves the
\* loop.
DL_Chunk(d, next) ==
    /\ download.calls[d].pc = "stream"
    /\ next = "chunk" => download.calls[d].chunks < MaxChunks
    /\ download' =
          IF next = "end" THEN [download EXCEPT !.calls[d].pc = "final"]
          ELSE IF CancelCheck(download, d) THEN ReturnCancelled(download, d)
          ELSE IF next = "err"
          THEN [download EXCEPT !.calls[d].pc = "done", !.calls[d].result = "error"]
          ELSE [download EXCEPT !.calls[d].chunks = @ + 1]
    /\ UNCHANGED <<core, reply, pipes, mutex, cmds>>

\* Lines 2694-2705: the last check of the flag and of the session.
DL_Final(d) ==
    /\ download.calls[d].pc = "final"
    /\ download' = IF CancelCheck(download, d) THEN ReturnCancelled(download, d)
                   ELSE [download EXCEPT !.calls[d].pc = "rename"]
    /\ UNCHANGED <<core, reply, pipes, mutex, cmds>>

\* Lines 2707-2743: the buffer is written, the file synced and closed, the
\* old file moved away and the temp file renamed onto save_path; the rename
\* fails if the temp file is gone.
DL_Rename(d) ==
    /\ download.calls[d].pc = "rename"
    /\ download' =
          IF download.temp = "present"
          THEN [download EXCEPT !.temp = "absent",
                                !.saved = download.calls[d].session_id,
                                !.calls[d].pc = "done", !.calls[d].result = "ok",
                                !.calls[d].renamed = TRUE]
          ELSE [download EXCEPT !.calls[d].pc = "done", !.calls[d].result = "error"]
    /\ UNCHANGED <<core, reply, pipes, mutex, cmds>>

\* The caller has received the result.
DL_Return(d) ==
    /\ download.calls[d].pc = "done"
    /\ download' = [download EXCEPT !.calls[d] = NoDownload]
    /\ UNCHANGED <<core, reply, pipes, mutex, cmds>>

\* cancel_download, lines 2749-2767: the flag is set and the temp file removed
\* if it exists; removed: remove_file succeeded (it fails on a file that a
\* download holds open where the platform forbids it).
CancelDownload(removed) ==
    /\ ~removed => download.temp = "present" /\ \E d \in Downloads : Downloading(d)
    /\ download' =
          [download EXCEPT
             !.cancelled = TRUE,
             !.temp = IF removed THEN "absent" ELSE @,
             !.calls = [d \in Downloads |->
                          IF Downloading(d) THEN [@[d] EXCEPT !.cancelSeen = TRUE]
                          ELSE @[d]]]
    /\ UNCHANGED <<core, reply, pipes, mutex, cmds>>

\* ------------------------------------------------------------ specification

\* The commands that create and destroy instances and their handles; B is
\* the set of answers the engine may give to a creation request.  Resources
\* are loaded with an empty list of paths.
Lifecycle(B) ==
    \/ \E i \in InstanceIds : CreateInstance(i)
    \/ \E i \in InstanceIds : DestroyInstance(i)
    \/ \E i \in InstanceIds, created, posted \in B :
          ConnectController(i, created, posted)
    \/ \E i \in InstanceIds, created \in B : LoadResource(i, created, 0)

\* The steps of the maa_start_tasks calls in flight.  NT and NC are the
\* lengths of the task list and of the agent list a call may be given, TCP the
\* values of tcp_compat_mode, ANS the answers a launch may get.
Submission(NT, NC, TCP, ANS) ==
    \/ \E c \in Calls, i \in InstanceIds, nt \in NT, nc \in NC,
          tcp \in TCP, step \in TaskerSteps : ST_Acquire(c, i, nt, nc, tcp, step)
    \/ \E c \in Calls, inited \in BOOLEAN : ST_Inited(c, inited)
    \/ \E c \in Calls, a \in ANS : ST_Launch(c, a)
    \/ \E c \in Calls : ST_Attach(c)
    \/ \E c \in Calls, ok \in BOOLEAN : ST_Post(c, ok)
    \/ \E c \in Calls : ST_Cache(c)
    \/ \E c \in Calls : ST_Return(c)

\* The steps of the shutdown threads and of the child processes, every
\* disconnect and kill succeeding.
Background ==
    \/ \E t \in Threads : ThrDisconnect(t, FALSE)
    \/ \E t \in Threads, failed \in BOOLEAN : ThrPoll(t, failed)
    \/ \E t \in Threads : ThrSleep(t)
    \/ \E t \in Threads : ThrFinish(t, FALSE)
    \/ \E a \in 1..MaxLaunches : ChildExit(a)

\* The registry: every command of maa_commands.rs that creates or destroys
\* an instance or one of its handles, from the empty registry.
Next ==
    \/ Lifecycle(BOOLEAN)
    \/ \E i \in InstanceIds : DestroyResource(i)
    \/ \E i \in InstanceIds, created, inited, posted \in BOOLEAN, setup \in RunSetups :
          RunTask(i, created, setup, inited, posted)

Spec == Init /\ [][Next]_vars

\* The registry after some of maa_create_instance, maa_load_resource,
\* maa_connect_controller and a first task submission have succeeded once:
\* the instance is absent (level 0), present (1), has a resource (2), a
\* controller (3), both (4), or both and a tasker bound to them (5).
RuntimeAt(level) ==
    [DefaultRuntime EXCEPT
       !.exists = level > 0,
       !.resource = IF level \in {2, 4, 5} THEN 1 ELSE 0,
       !.controller = IF level \in {3, 4, 5} THEN 1 ELSE 0,
       !.tasker = IF level = 5 THEN [id |-> 1, res |-> 1, ctrl |-> 1] ELSE NoTasker]

\* The engine's handles at that level, none destroyed.
HandlesAt(level) ==
    /\ resources = IF RuntimeAt(level).resource # 0 THEN <<NewResource>> ELSE <<>>
    /\ controllers = IF RuntimeAt(level).controller # 0 THEN <<0>> ELSE <<>>
    /\ taskers = IF level = 5 THEN <<NewTasker>> ELSE <<>>

Registry(level) ==
    /\ instances = [i \in InstanceIds |-> RuntimeAt(level)]
    /\ HandlesAt(level)

InitSubmit ==
    /\ RestInit
    /\ \E level \in 0..5 : Registry(level)
    /\ agents = <<>>
    /\ nextJob = 1
    /\ call = [c \in Calls |-> IdleCall]
    /\ thr = [t \in Threads |-> IdleThread]

\* Task posting: submissions that are given no agents, on an instance that
\* may be removed and created again while they run.
NextTasks ==
    \/ \E i \in InstanceIds : CreateInstance(i)
    \/ \E i \in InstanceIds : DestroyInstance(i)
    \/ \E c \in Calls, i \in InstanceIds, nt \in 0..MaxTasks, step \in TaskerSteps :
          ST_Acquire(c, i, nt, -1, FALSE, step)
    \/ \E c \in Calls, inited \in BOOLEAN : ST_Inited(c, inited)
    \/ \E c \in Calls, ok \in BOOLEAN : ST_Post(c, ok)
    \/ \E c \in Calls : ST_Cache(c)
    \/ \E c \in Calls : ST_Return(c)

SpecTasks == InitSubmit /\ [][NextTasks]_vars

\* A launch is given one answer for each outcome a batch can tell apart:
\* launched, failed with no child, failed with the child killed, failed with
\* the child left running.
BatchAnswers ==
    {AllAnswers,
     [AllAnswers EXCEPT !.spawn = FALSE],
     [AllAnswers EXCEPT !.connect = FALSE],
     [AllAnswers EXCEPT !.panic = "late"]}

\* Agent batches: submissions with an empty task list and an agent list, the
\* tasker being created without error when the instance has none,
\* maa_stop_agent, and an instance that may be removed and created again.
\* The thread that maa_stop_agent spawns shares no state with the registry;
\* its steps are those of SpecShutdown.
NextAgents ==
    \/ \E i \in InstanceIds : CreateInstance(i)
    \/ \E i \in InstanceIds : DestroyInstance(i)
    \/ \E c \in Calls, i \in InstanceIds, nc \in 0..MaxAgents :
          ST_Acquire(c, i, 0, nc, FALSE, "ok")
    \/ \E c \in Calls, inited \in BOOLEAN : ST_Inited(c, inited)
    \/ \E c \in Calls, a \in BatchAnswers : ST_Launch(c, a)
    \/ \E c \in Calls : ST_Attach(c)
    \/ \E c \in Calls : ST_Cache(c)
    \/ \E c \in Calls : ST_Return(c)
    \/ \E i \in InstanceIds, t \in Threads : StopAgent(i, t)

SpecAgents == InitSubmit /\ [][NextAgents]_vars

\* Whole submissions, from acquiring the tasker to the last post, with short
\* task and agent lists.
SubmitTasks == {0, 1}
SubmitAgents == {-1, 1}

NextSubmit == Submission(SubmitTasks, SubmitAgents, {FALSE}, BatchAnswers)

SpecSubmit == InitSubmit /\ [][NextSubmit]_vars

\* The states in which maa_stop_agent has just spawned its thread: the instance
\* held n agents, launched as one batch; some children may have terminated
\* already.
InitShutdown ==
    /\ RestInit
    /\ Registry(5)
    /\ nextJob = 1
    /\ call = [c \in Calls |-> IdleCall]
    /\ \E n \in 1..MaxLaunches :
          /\ \E gone \in SUBSET (1..n) :
                agents = [k \in 1..n |->
                            IF k \in gone
                            THEN [NewAgent(k - 1) EXCEPT !.status = "exited",
                                                        !.exit = "early"]
                            ELSE NewAgent(k - 1)]
          /\ thr = [t \in Threads |->
                      IF t = 1
                      THEN [IdleThread EXCEPT !.pc = "disconnect",
                                              !.clients = [k \in 1..n |-> k],
                                              !.children = [k \in 1..n |-> k]]
                      ELSE IdleThread]

SpecShutdown == InitShutdown /\ [][Background]_vars

\* The registry commands on an instance that may already hold a resource, a
\* controller, a tasker and one agent with its child process (running, or
\* terminated by itself).
InitDestroy ==
    /\ RestInit
    /\ nextJob = 1
    /\ call = [c \in Calls |-> IdleCall]
    /\ thr = [t \in Threads |-> IdleThread]
    /\ \E level \in 0..5 :
          /\ HandlesAt(level)
          /\ \/ /\ agents = <<>>
                /\ instances = [i \in InstanceIds |-> RuntimeAt(level)]
             \/ /\ level > 0
                /\ \E st \in {"running", "exited"} :
                      agents = <<[NewAgent(0) EXCEPT
                                    !.status = st,
                                    !.exit = IF st = "exited" THEN "early" ELSE "no"]>>
                /\ instances = [i \in InstanceIds |->
                                  [RuntimeAt(level) EXCEPT !.agent_clients = <<1>>,
                                                           !.agent_children = <<1>>]]

SpecDestroy == InitDestroy /\ [][Next]_vars

\* One maa_start_tasks call with an agent list, maa_stop_agent and the thread
\* it spawns, running side by side.
NextLock ==
    \/ \E i \in InstanceIds, nc \in {0, 1}, step \in TaskerSteps :
          ST_Acquire(1, i, 0, nc, FALSE, step)
    \/ \E inited \in BOOLEAN : ST_Inited(1, inited)
    \/ \E a \in LaunchAnswers : ST_Launch(1, a)
    \/ ST_Attach(1)
    \/ ST_Cache(1)
    \/ ST_Return(1)
    \/ \E i \in InstanceIds : StopAgent(i, 1)
    \/ Background

SpecLock == InitSubmit /\ [][NextLock]_vars

\* One single-agent maa_start_tasks call (maa_commands.rs) side by side with
\* maa_destroy_resource and maa_destroy_instance.
NextLegacy ==
    \/ \E i \in InstanceIds, nt \in SubmitTasks, withAgent, created \in BOOLEAN :
          Legacy_Acquire(1, i, nt, withAgent, created)
    \/ \E step \in LegacyAgentSteps, crash \in BOOLEAN : Legacy_Agent(1, step, crash)
    \/ \E connected \in LegacyConnectAnswers : Legacy_Connect(1, connected)
    \/ \E inited, crash \in BOOLEAN, oks \in UNION {[1..n -> BOOLEAN] : n \in SubmitTasks} :
          Legacy_Submit(1, inited, oks, crash)
    \/ Legacy_Cache(1)
    \/ ST_Return(1)
    \/ \E i \in InstanceIds : DestroyResource(i)
    \/ \E i \in InstanceIds : DestroyInstance(i)

SpecLegacy == InitSubmit /\ [][NextLegacy]_vars

\* Two instances side by side.  FrameOps(i) is every command addressed to
\* instance i: the registry commands, maa_stop_task, maa_stop_agent and the
\* steps of a maa_start_tasks call whose instance_id is i (one task, one
\* agent).
FrameIds == {"a", "b"}

FrameOps(i) ==
    \/ CreateInstance(i)
    \/ DestroyInstance(i)
    \/ \E created, posted \in BOOLEAN : ConnectController(i, created, posted)
    \/ \E created \in BOOLEAN : LoadResource(i, created, 0)
    \/ DestroyResource(i)
    \/ StopTask(i)
    \/ StopAgent(i, 1)
    \/ ST_Acquire(1, i, 1, 1, FALSE, "ok")
    \/ call[1].inst = i /\ call[1].pc # "idle" /\
          \/ \E inited \in BOOLEAN : ST_Inited(1, inited)
          \/ \E a \in BatchAnswers : ST_Launch(1, a)
          \/ ST_Attach(1)
          \/ \E ok \in BOOLEAN : ST_Post(1, ok)
          \/ ST_Cache(1)
          \/ ST_Return(1)

\* Instance "b" after a successful maa_start_tasks with one task and one
\* agent: it holds a resource, a controller, a tasker, an agent and a cached
\* task id.
FullRuntime ==
    [RuntimeAt(5) EXCEPT !.agent_clients = <<1>>, !.agent_children = <<1>>,
                         !.task_ids = <<1>>]

\* "b" is fully set up, "a" does not exist yet.
InitFrame ==
    /\ RestInit
    /\ instances = [i \in FrameIds |-> IF i = "b" THEN FullRuntime ELSE DefaultRuntime]
    /\ HandlesAt(5)
    /\ agents = <<NewAgent(0)>>
    /\ nextJob = 2
    /\ call = [c \in Calls |-> IdleCall]
    /\ thr = [t \in Threads |-> IdleThread]

\* Every command on "a", side by side with the removal and the creation of
\* "b".
NextFrame ==
    \/ FrameOps("a")
    \/ CreateInstance("b")
    \/ DestroyInstance("b")

SpecFrame == InitFrame /\ [][NextFrame]_vars

\* The answers of a launch in a teardown: it succeeds, or it fails after the
\* spawn, the disconnect and kill calls of the rollback succeeding or failing.
TeardownAnswers ==
    {AllAnswers,
     [AllAnswers EXCEPT !.connect = FALSE],
     [AllAnswers EXCEPT !.connect = FALSE, !.teardown = FALSE]}

InitTeardown ==
    /\ RestInit
    /\ Registry(5)
    /\ agents = <<>>
    /\ nextJob = 1
    /\ call = [c \in Calls |-> IdleCall]
    /\ thr = [t \in Threads |-> IdleThread]

\* Teardown with failing calls: a maa_start_tasks call launches a batch and
\* rolls it back or stores it, maa_stop_agent hands the stored agents to its
\* thread, and each disconnect, try_wait and kill of the thread or of the
\* rollback may return an error.  The two teardowns are taken one after the
\* other: a call begins while no shutdown thread runs, a stop is issued
\* between two calls.
NextTeardown ==
    \/ \E i \in InstanceIds :
          thr[1].pc = "idle" /\ ST_Acquire(1, i, 0, MaxAgents, FALSE, "ok")
    \/ ST_Inited(1, TRUE)
    \/ \E a \in TeardownAnswers : ST_Launch(1, a)
    \/ ST_Attach(1)
    \/ ST_Cache(1)
    \/ ST_Return(1)
    \/ \E i \in InstanceIds : call[1].pc = "idle" /\ StopAgent(i, 1)
    \/ \E failed \in BOOLEAN : ThrDisconnect(1, failed)
    \/ \E failed \in BOOLEAN : ThrPoll(1, failed)
    \/ ThrSleep(1)
    \/ \E failed \in BOOLEAN : ThrFinish(1, failed)
    \/ \E a \in 1..MaxLaunches : ChildExit(a)

SpecTeardown == InitTeardown /\ [][NextTeardown]_vars

\* Task submissions of both kinds side by side: maa_start_tasks calls without
\* agents and maa_run_task, any step of a tasker's creation and setup failing;
\* maa_destroy_resource and maa_load_resource end and begin the periods in
\* which the instance has a tasker.
NextTaskers ==
    \/ \E c \in Calls, i \in InstanceIds, nt \in SubmitTasks, step \in TaskerSteps :
          ST_Acquire(c, i, nt, -1, FALSE, step)
    \/ \E c \in Calls, inited \in BOOLEAN : ST_Inited(c, inited)
    \/ \E c \in Calls, ok \in BOOLEAN : ST_Post(c, ok)
    \/ \E c \in Calls : ST_Cache(c)
    \/ \E c \in Calls : ST_Return(c)
    \/ \E i \in InstanceIds, created, inited, posted \in BOOLEAN, setup \in RunSetups :
          RunTask(i, created, setup, inited, posted)
    \/ \E i \in InstanceIds : DestroyResource(i)
    \/ \E i \in InstanceIds, created \in BOOLEAN : LoadResource(i, created, 0)

SpecTaskers == InitSubmit /\ [][NextTaskers]_vars

\* The answers of a launch that tell the two clients apart: those of
\* LaunchAnswers and a launch whose TCP client fails and whose spawn fails.
TcpAnswers ==
    LaunchAnswers \cup {[AllAnswers EXCEPT !.create_tcp = FALSE, !.spawn = FALSE]}

\* Agent batches with and without tcp_compat_mode, one call at a time.
NextTcp ==
    \/ \E i \in InstanceIds, nc \in 1..MaxAgents, tcp \in BOOLEAN :
          ST_Acquire(1, i, 0, nc, tcp, "ok")
    \/ \E inited \in BOOLEAN : ST_Inited(1, inited)
    \/ \E a \in TcpAnswers : ST_Launch(1, a)
    \/ ST_Attach(1)
    \/ ST_Cache(1)
    \/ ST_Return(1)

SpecTcp == InitSubmit /\ [][NextTcp]_vars

\* Loads with and without paths on an instance whose resource and which
\* itself may be destroyed in between.
NextLoad ==
    \/ \E i \in InstanceIds : CreateInstance(i)
    \/ \E i \in InstanceIds : DestroyInstance(i)
    \/ \E i \in InstanceIds, created \in BOOLEAN, npaths \in 0..1 :
          LoadResource(i, created, npaths)
    \/ \E i \in InstanceIds : DestroyResource(i)
    \/ \E i \in InstanceIds, created, posted \in BOOLEAN :
          ConnectController(i, created, posted)

SpecLoad == InitSubmit /\ [][NextLoad]_vars

\* The engine's answers a snapshot of several instances is given: for each
\* instance all four flags set, none, or one of two mixed answers.
SnapshotFlags ==
    {e \in EngineFlags : e.connected = e.tasker_inited /\ e.resource_loaded = e.is_running}

\* The caller has received the reply.
QueryReturn ==
    /\ reply # NoReply
    /\ reply' = NoReply
    /\ UNCHANGED <<instances, resources, controllers, taskers, agents, nextJob, call, thr>>
    /\ UNCHANGED <<pipes, aux>>

\* No reply is on its way to a caller.
Quiet == reply = NoReply

\* The snapshot queries between the commands that give instance "a" its
\* handles and take them away, and the removal and creation of "b".  Every
\* command is one hold of the registry lock, and a reply is received before
\* the next command begins.
NextQuery ==
    \/ Quiet /\ CreateInstance("a")
    \/ Quiet /\ DestroyInstance("a")
    \/ \E created, posted \in BOOLEAN :
          Quiet /\ ConnectController("a", created, posted)
    \/ \E created \in BOOLEAN : Quiet /\ LoadResource("a", created, 0)
    \/ Quiet /\ DestroyResource("a")
    \/ \E created, inited, posted \in BOOLEAN :
          Quiet /\ RunTask("a", created, "ok", inited, posted)
    \/ Quiet /\ CreateInstance("b")
    \/ Quiet /\ DestroyInstance("b")
    \/ \E i \in FrameIds, loaded \in BOOLEAN, e \in EngineFlags :
          Quiet /\ GetInstanceState(i, loaded, e)
    \/ \E loaded \in BOOLEAN, es \in [FrameIds -> SnapshotFlags] :
          Quiet /\ GetAllStates(loaded, es)
    \/ QueryReturn

\* "b" holds handles already, or the registry is empty and no handle exists.
InitQuery ==
    \/ InitFrame
    \/ /\ RestInit
       /\ instances = [i \in FrameIds |-> DefaultRuntime]
       /\ resources = <<>> /\ controllers = <<>> /\ taskers = <<>> /\ agents = <<>>
       /\ nextJob = 1
       /\ call = [c \in Calls |-> IdleCall]
       /\ thr = [t \in Threads |-> IdleThread]

SpecQuery == InitQuery /\ [][NextQuery]_vars

\* An agent child was spawned with both streams piped: the log file was
\* opened, or could not be, and the two reader threads start.
InitPipes ==
    /\ Registry(5)
    /\ agents = <<NewAgent(0)>>
    /\ nextJob = 1
    /\ call = [c \in Calls |-> IdleCall]
    /\ thr = [t \in Threads |-> IdleThread]
    /\ AuxInit
    /\ reply = NoReply
    /\ readers = [s \in Streams |-> [NoReader EXCEPT !.pc = "read"]]
    /\ \E opened \in BOOLEAN : logfile = [NoLog EXCEPT !.opened = opened]
    /\ events = <<>>

NextPipes ==
    \/ \E s \in Streams, outcome \in ReadOutcomes : PipeRead(s, outcome)
    \/ \E s \in Streams : PipeLock(s)
    \/ \E s \in Streams : PipePrefix(s)
    \/ \E s \in Streams : PipeLine(s)
    \/ \E s \in Streams : PipeEmit(s)

SpecPipes == InitPipes /\ [][NextPipes]_vars

\* The single-agent maa_start_tasks and maa_stop_agent of maa_commands.rs on
\* an instance that may hold an agent already, the thread the stop spawns, and
\* the child processes, which terminate by themselves or do not.
NextLegacyStop ==
    \/ \E i \in InstanceIds, created \in BOOLEAN : Legacy_Acquire(1, i, 0, TRUE, created)
    \/ \E step \in LegacyAgentSteps : Legacy_Agent(1, step, FALSE)
    \/ \E connected \in LegacyConnectAnswers : Legacy_Connect(1, connected)
    \/ \E inited \in BOOLEAN : Legacy_Submit(1, inited, <<>>, FALSE)
    \/ Legacy_Cache(1)
    \/ ST_Return(1)
    \/ \E i \in InstanceIds : Legacy_StopAgent(i, 1)
    \/ Legacy_ThrDisconnect(1)
    \/ Legacy_ThrWait(1)
    \/ \E a \in 1..MaxLaunches : ChildExit(a)

SpecLegacyStop == InitDestroy /\ [][NextLegacyStop]_vars

\* Every command that is given an instance id, on an instance that may or
\* may not be registered.  Submissions carry no task and no agent; the
\* commands are taken one after the other, a reply being received and a
\* submission having returned before the next command begins.
\* No reply is on its way and no submission is in flight.
Calm == Quiet /\ call[1].pc = "idle"

NextNotFound ==
    \/ \E i \in InstanceIds : Calm /\ CreateInstance(i)
    \/ \E i \in InstanceIds : Calm /\ DestroyInstance(i)
    \/ \E i \in InstanceIds, created, posted \in BOOLEAN :
          Calm /\ ConnectController(i, created, posted)
    \/ \E i \in InstanceIds, created \in BOOLEAN : Calm /\ LoadResource(i, created, 0)
    \/ \E i \in InstanceIds : Calm /\ DestroyResource(i)
    \/ \E i \in InstanceIds, created, inited, posted \in BOOLEAN :
          Calm /\ RunTask(i, created, "ok", inited, posted)
    \/ \E i \in InstanceIds : Calm /\ StopTask(i)
    \/ \E i \in InstanceIds : Calm /\ StopAgent(i, 1)
    \/ \E i \in InstanceIds : Calm /\ Legacy_StopAgent(i, 1)
    \/ \E i \in InstanceIds, step \in TaskerSteps :
          Calm /\ ST_Acquire(1, i, 0, -1, FALSE, step)
    \/ \E i \in InstanceIds, created \in BOOLEAN :
          Calm /\ Legacy_Acquire(1, i, 0, FALSE, created)
    \/ \E inited \in BOOLEAN : Quiet /\ ST_Inited(1, inited)
    \/ \E inited \in BOOLEAN : Quiet /\ Legacy_Submit(1, inited, <<>>, FALSE)
    \/ Quiet /\ ST_Cache(1)
    \/ Quiet /\ Legacy_Cache(1)
    \/ Quiet /\ ST_Return(1)
    \/ \E i \in InstanceIds, loaded \in BOOLEAN, e \in EngineFlags :
          Calm /\ GetInstanceState(i, loaded, e)
    \/ QueryReturn

SpecNotFound == InitSubmit /\ [][NextNotFound]_vars

\* maa_destroy_instance on one thread, maa_run_task and a snapshot query on
\* others, each taking its locks one at a time; maa_create_instance brings
\* the instance back between two commands.
NextMutex ==
    \/ \E i \in InstanceIds : Free("instances") /\ CreateInstance(i)
    \/ \E i \in InstanceIds : Destroy_Remove(i)
    \/ Destroy_Drop
    \/ \E i \in InstanceIds : Quiet /\ Run_LockLibrary(i)
    \/ \E created \in BOOLEAN, setup \in RunSetups : Run_Acquire(created, setup)
    \/ \E inited, posted \in BOOLEAN : Run_Post(inited, posted)
    \/ Run_Cache
    \/ \E i \in InstanceIds : Quiet /\ Query_LockLibrary(i)
    \/ \E e \in SnapshotFlags : Query_Read(e)
    \/ QueryReturn

SpecMutex == InitDestroy /\ [][NextMutex]_vars

\* download_file calls and cancel_download side by side, every request
\* answered with success and every chunk received without error.
NextDownload ==
    \/ \E d \in Downloads : DL_Begin(d)
    \/ \E d \in Downloads : DL_Reset(d)
    \/ \E d \in Downloads : DL_Request(d, TRUE)
    \/ \E d \in Downloads, next \in {"chunk", "end"} : DL_Chunk(d, next)
    \/ \E d \in Downloads : DL_Final(d)
    \/ \E d \in Downloads : DL_Rename(d)
    \/ \E d \in Downloads : DL_Return(d)
    \/ \E removed \in BOOLEAN : CancelDownload(removed)

SpecDownload == Init /\ [][NextDownload]_vars

\* ============================================================== properties

Range(s) == {s[k] : k \in DOMAIN s}

\* The call c has returned "Agent start failed".
FailedLaunch(c) ==
    /\ call[c].pc = "done"
    /\ call[c].result.kind = "Err" /\ call[c].result.msg = "Agent start failed"

\* The step is one of call c, taken before the batch is attached.
LaunchingStep(c) ==
    call[c].pc \in {"idle", "inited", "launch"} /\ call'[c] # call[c]

AgentsOf(rt) == <<rt.agent_clients, rt.agent_children>>

\* C1, state part: when maa_start_tasks has returned "Agent start failed"
\* because the launch of agent k failed, the call holds exactly the k agents
\* launched before it, every one of them was sent a disconnect, its child was
\* killed and waited on (it is reaped), and none of them is in an instance's
\* agent_clients or agent_children.
C1_RolledBack ==
    \A c \in Calls : FailedLaunch(c) =>
        LET me == call[c] IN
        /\ Len(me.new_clients) = me.idx /\ Len(me.new_children) = me.idx
        /\ me.idx < me.ncfg /\ ~me.attached
        /\ \A k \in 1..me.idx :
              /\ agents[me.new_clients[k]].disconnects >= 1
              /\ agents[me.new_children[k]].kills >= 1
              /\ agents[me.new_children[k]].waits >= 1
              /\ agents[me.new_children[k]].status = "reaped"
        /\ \A i \in InstanceIds :
              /\ Range(instances[i].agent_clients) \cap Range(me.new_clients) = {}
              /\ Range(instances[i].agent_children) \cap Range(me.new_children) = {}

\* C1, step part: no step a call takes before it attaches its batch (reading
\* the registry, querying the tasker, launching, rolling back) changes an
\* instance's agent_clients or agent_children.
C1_Unchanged ==
    \A c \in Calls : LaunchingStep(c) =>
        \A i \in InstanceIds : AgentsOf(instances'[i]) = AgentsOf(instances[i])

\* C1: if launching agent k of a batch fails, every agent launched before it
\* in the batch has been disconnected, killed and waited on when the error is
\* returned, and the call has left the instance's agent collections as they
\* were.
C1_Rollback == []C1_RolledBack /\ [][C1_Unchanged]_vars

\* A call has failed at agent 1 of its batch: agent 0 was rolled back.
C1_Witness ==
    \E c \in Calls :
        /\ FailedLaunch(c) /\ call[c].idx = 1
        /\ agents[call[c].new_children[1]].status = "reaped"
        /\ instances[call[c].inst].exists

\* The step in which call c attaches its batch.
AttachStep(c) == call[c].pc = "attach" /\ call'[c].pc = "post"

\* The batch call c is about to attach: as many clients and as many children
\* as agent specifications, the k-th pair being the launch of specification k.
WholeBatch(me) ==
    /\ Len(me.new_clients) = me.ncfg /\ Len(me.new_children) = me.ncfg
    /\ \A k \in 1..me.ncfg :
          /\ me.new_children[k] = me.new_clients[k]
          /\ agents[me.new_clients[k]].index = k - 1

\* The step appends the batch of call c to both collections of its instance.
Appended(c) ==
    LET me == call[c] IN
    /\ instances'[me.inst].agent_clients =
          instances[me.inst].agent_clients \o me.new_clients
    /\ instances'[me.inst].agent_children =
          instances[me.inst].agent_children \o me.new_children

C3_Aligned ==
    \A i \in InstanceIds :
        /\ Len(instances[i].agent_clients) = Len(instances[i].agent_children)
        /\ instances[i].agent_clients = instances[i].agent_children

\* C3, step part: a step leaves both collections alone, appends the whole
\* batch of one call to both, or empties both.
C3_Unit ==
    \A i \in InstanceIds :
        \/ AgentsOf(instances'[i]) = AgentsOf(instances[i])
        \/ \E c \in Calls :
              AttachStep(c) /\ call[c].inst = i /\ WholeBatch(call[c]) /\ Appended(c)
        \/ AgentsOf(instances'[i]) = <<(<<>>), (<<>>)>>

\* C3: after any interleaving of maa_start_tasks and maa_stop_agent calls an
\* instance's agent_clients and agent_children have the same length and are
\* index-aligned, and they change only by appending a whole batch to both or
\* by taking all of both.
C3_Paired == []C3_Aligned /\ [][C3_Unit]_vars

\* maa_stop_agent has taken the agents of an instance that had a batch
\* attached, and a later batch has been appended to the emptied collections.
C3_Witness ==
    /\ thr[1].pc # "idle" /\ thr[1].clients # <<>>
    /\ \E i \in InstanceIds :
          /\ instances[i].agent_clients # <<>>
          /\ Range(instances[i].agent_clients) \cap Range(thr[1].clients) = {}

\* The shutdown thread t has processed every child it was given.
ShutdownDone == \A t \in Threads : thr[t].pc = "idle"

\* C4, first half: a child that a try_wait of its window saw exited is never
\* killed.
C4_SeenNotKilled == \A a \in DOMAIN agents : agents[a].sawExit => agents[a].kills = 0

PolledEveryInterval(t) ==
    /\ thr[t].pc = "poll" => thr[t].polls * PollMs = thr[t].elapsed
    /\ thr[t].pc = "sleep" => thr[t].polls * PollMs = thr[t].elapsed + PollMs

\* Thread t is about to kill the child it waited for.
AboutToKill(t) == thr[t].pc = "finish" /\ ~thr[t].exited

\* The kill happens once the bound has elapsed, within one poll interval of
\* it, after TimeoutMs / PollMs polls.
KillOnTime(t) ==
    /\ thr[t].elapsed >= TimeoutMs
    /\ thr[t].elapsed < TimeoutMs + PollMs
    /\ thr[t].polls * PollMs = TimeoutMs

\* Every child that was killed was waited on at once, so it is reaped; a
\* child that never exited is killed.
KilledAndReaped ==
    /\ \A a \in DOMAIN agents :
          agents[a].kills > 0 =>
              agents[a].kills = 1 /\ agents[a].waits = 1 /\ agents[a].status = "reaped"
    /\ ShutdownDone => \A a \in DOMAIN agents :
                           agents[a].exit = "no" => agents[a].kills = 1

C6_NotInited ==
    \A c \in Calls :
        /\ call[c].initedAns = "no" =>
              /\ call[c].pc = "done"
              /\ call[c].result = Err("Tasker not properly initialized")
              /\ call[c].posts = <<>> /\ call[c].tidx = 0 /\ ~call[c].cached
        /\ call[c].initedAns = "none" => call[c].posts = <<>>

\* A submission of MaxTasks tasks has failed because the tasker was not
\* initialized.
C6_Witness ==
    \E c \in Calls :
        /\ call[c].initedAns = "no" /\ call[c].ntasks = MaxTasks
        /\ call[c].pc = "done"

\* The ids of the successful posts of a log, in the order of the log.
OkIds(posts) ==
    LET okp == SelectSeq(posts, LAMBDA p : p.ok)
    IN [k \in 1..Len(okp) |-> okp[k].id]

\* C7: the tasks are posted one at a time in input order, a failed post is
\* skipped and the following tasks are still posted, and the returned ids
\* are exactly the ids of the successful posts, in input order.
C7_PostOrder ==
    \A c \in Calls :
        LET me == call[c] IN
        /\ Len(me.posts) = me.tidx /\ me.tidx <= me.ntasks
        /\ \A k \in 1..Len(me.posts) : me.posts[k].idx = k - 1
        /\ me.task_ids = OkIds(me.posts)
        /\ me.result.kind = "Ok" =>
              Len(me.posts) = me.ntasks /\ me.result.ids = OkIds(me.posts)

\* Three tasks, the second post failed: the ids of the first and the third
\* are returned, in that order.
C7_Witness ==
    \E c \in Calls :
        LET me == call[c] IN
        /\ me.pc = "done" /\ me.ntasks = 3 /\ Len(me.posts) = 3
        /\ me.posts[1].ok /\ ~me.posts[2].ok /\ me.posts[3].ok
        /\ me.result = Ok(<<me.posts[1].id, me.posts[3].id>>)

ConfigErrors ==
    {"Instance not found", "Resource not loaded", "Controller not connected",
     "Tasker not properly initialized"}

\* The call c has returned a configuration error.
ConfigFailed(c) ==
    call[c].pc = "done" /\ call[c].result.kind = "Err"
    /\ call[c].result.msg \in ConfigErrors

\* What a call that fails with a configuration error has not done: launch an
\* agent, attach a batch, post a task, write the task id cache.
NothingStarted(c) ==
    /\ call[c].attempts = 0 /\ call[c].new_clients = <<>>
    /\ call[c].new_children = <<>> /\ ~call[c].attached
    /\ call[c].posts = <<>> /\ ~call[c].cached

\* C8 as stated: a call that has failed with a configuration error has launched
\* no agent, posted no task and has not changed the instance, its tasker
\* included.
C8_Original ==
    \A c \in Calls : ConfigFailed(c) => NothingStarted(c) /\ ~call[c].createdTasker

\* C8, state part: a call that has failed with a configuration error has
\* launched no agent and posted no task; it has stored a tasker only if the
\* error is 'Tasker not properly initialized'.
C8_Failed ==
    \A c \in Calls : ConfigFailed(c) =>
        /\ NothingStarted(c)
        /\ call[c].createdTasker =>
              call[c].result.msg = "Tasker not properly initialized"

\* C8, step part: the steps a call takes up to the answer of tasker.inited()
\* change nothing but, when the instance has no tasker, the instance's tasker,
\* which becomes a new one bound to the current resource and controller.
C8_Frame ==
    \A c \in Calls :
        call[c].pc \in {"idle", "inited"} /\ call'[c] # call[c] =>
            /\ UNCHANGED <<resources, controllers, agents, nextJob, thr>>
            /\ \A i \in InstanceIds :
                  \/ instances'[i] = instances[i]
                  \/ /\ call[c].pc = "idle" /\ call'[c].createdTasker
                     /\ instances[i].tasker.id = 0
                     /\ instances'[i] =
                           [instances[i] EXCEPT
                              !.tasker = [id |-> Len(taskers'),
                                          res |-> instances[i].resource,
                                          ctrl |-> instances[i].controller]]

\* C8: a call that fails with a configuration error launches no agent, posts
\* no task and leaves the instance's resource, controller, agent collections
\* and task_ids as they were; the tasker too, except that a tasker the call
\* created for an instance that had none stays stored when the error is
\* 'Tasker not properly initialized'.
C8_NoSideEffects == []C8_Failed /\ [][C8_Frame]_vars

\* A call given one task and one agent has failed because the tasker it had
\* just created and stored was not initialized.
C8_Witness ==
    \E c \in Calls :
        /\ ConfigFailed(c) /\ call[c].createdTasker
        /\ call[c].ntasks = 1 /\ call[c].ncfg = 1
        /\ instances[call[c].inst].tasker.id # 0

\* C9: whenever an instance holds a tasker, the controller the tasker was
\* bound to is the instance's current controller and has not been destroyed.
C9_ControllerCurrent ==
    \A i \in InstanceIds :
        instances[i].tasker.id # 0 =>
            /\ instances[i].tasker.ctrl = instances[i].controller
            /\ instances[i].controller # 0
            /\ controllers[instances[i].tasker.ctrl] = 0

\* C10: whenever an instance holds a tasker, the resource the tasker was bound
\* to is the instance's current resource and has not been destroyed.
C10_ResourceCurrent ==
    \A i \in InstanceIds :
        instances[i].tasker.id # 0 =>
            /\ instances[i].tasker.res = instances[i].resource
            /\ instances[i].resource # 0
            /\ resources[instances[i].tasker.res].destroys = 0
            /\ taskers[instances[i].tasker.id].destroys = 0

\* After destroy-then-load a submission has created a second tasker, bound to
\* the second resource; the first tasker and the first resource are destroyed.
C10_Witness ==
    \E i \in InstanceIds :
        /\ instances[i].resource = 2 /\ instances[i].tasker.id = 2
        /\ instances[i].tasker.res = 2
        /\ resources[1].destroys = 1 /\ taskers[1].destroys = 1

\* C11, creation: a maa_create_instance step on an identifier that is in the
\* registry changes nothing; on a new identifier it inserts the empty runtime
\* and changes nothing else.
C11_Create ==
    \A i \in InstanceIds : CreateInstance(i) =>
        /\ instances[i].exists => instances' = instances
        /\ ~instances[i].exists =>
              instances' = [instances EXCEPT ![i] = [DefaultRuntime EXCEPT !.exists = TRUE]]
        /\ UNCHANGED <<resources, controllers, taskers, agents, nextJob>>

\* C11, removal: the only step that takes an instance out of the registry is
\* maa_destroy_instance for that instance.
C11_Stays ==
    \A i \in InstanceIds :
        instances[i].exists /\ ~instances'[i].exists => DestroyInstance(i)

\* C11: maa_create_instance is idempotent (an existing runtime keeps its
\* handles and task_ids, a new identifier gets the empty runtime), and an
\* instance stays in the registry through every other command until
\* maa_destroy_instance is called for it.
C11_Idempotent == [][C11_Create /\ C11_Stays]_vars

\* An instance that holds a resource, a controller, a tasker and cached task
\* ids: maa_create_instance on it must leave all of them in place.
C11_Witness ==
    \E i \in InstanceIds :
        /\ instances[i].exists /\ instances[i].resource # 0
        /\ instances[i].controller # 0 /\ instances[i].tasker.id # 0
        /\ instances[i].task_ids # <<>>

\* The place of a release in the order agent client, agent child, tasker,
\* controller, resource.
Rank(o) ==
    IF o.op \in {"agent_disconnect", "agent_destroy"} THEN 1
    ELSE IF o.op = "child_kill" THEN 2
    ELSE IF o.op = "tasker_destroy" THEN 3
    ELSE IF o.op = "controller_destroy" THEN 4
    ELSE 5

\* The positions of the sequence ops at which op is made on handle h.
Made(ops, op, h) == {k \in DOMAIN ops : ops[k] = ReleaseOp(op, h)}

\* The releases ops are in dependency order, and every handle the runtime rt
\* holds is released by exactly one of them (an agent client by one disconnect
\* followed by one destroy).
OrderedOnce(rt, ops) ==
    /\ \A j, k \in DOMAIN ops : j < k => Rank(ops[j]) <= Rank(ops[k])
    /\ \A h \in Range(rt.agent_clients) :
          /\ Cardinality(Made(ops, "agent_disconnect", h)) = 1
          /\ Cardinality(Made(ops, "agent_destroy", h)) = 1
          /\ \A j \in Made(ops, "agent_disconnect", h), k \in Made(ops, "agent_destroy", h) :
                j < k
    /\ \A h \in Range(rt.agent_children) : Cardinality(Made(ops, "child_kill", h)) = 1
    /\ rt.tasker.id # 0 => Cardinality(Made(ops, "tasker_destroy", rt.tasker.id)) = 1
    /\ rt.controller # 0 => Cardinality(Made(ops, "controller_destroy", rt.controller)) = 1
    /\ rt.resource # 0 => Cardinality(Made(ops, "resource_destroy", rt.resource)) = 1
    /\ Len(ops) = 2 * Len(rt.agent_clients) + Len(rt.agent_children)
                  + (IF rt.tasker.id # 0 THEN 1 ELSE 0)
                  + (IF rt.controller # 0 THEN 1 ELSE 0)
                  + (IF rt.resource # 0 THEN 1 ELSE 0)

\* After the step none of the handles the runtime rt held is live, and each
\* was released once in all.
AllReleased(rt) ==
    /\ \A h \in Range(rt.agent_clients) :
          /\ agents'[h].destroys = 1
          /\ agents'[h].disconnects = agents[h].disconnects + 1
    /\ \A h \in Range(rt.agent_children) :
          agents'[h].status # "running" /\ agents'[h].kills = agents[h].kills + 1
    /\ rt.tasker.id # 0 => taskers'[rt.tasker.id].destroys = 1
    /\ rt.controller # 0 => controllers'[rt.controller] = 1
    /\ rt.resource # 0 => resources'[rt.resource].destroys = 1

\* C12: maa_destroy_instance removes the instance from the registry and
\* releases every handle it held exactly once, in the order agent client
\* (disconnect, then destroy), agent child (kill), tasker, controller,
\* resource; after the step none of these handles is live.
C12_DestroyOrder ==
    [][\A i \in InstanceIds :
          DestroyInstance(i) /\ instances[i].exists =>
              /\ ~instances'[i].exists
              /\ OrderedOnce(instances[i], ReleaseOps(instances[i]))
              /\ AllReleased(instances[i])]_vars

\* An instance that held an agent with a running child, a tasker, a second
\* controller and a resource has been destroyed: all five are released.
C12_Witness ==
    /\ \A i \in InstanceIds : ~instances[i].exists
    /\ Len(agents) = 1 /\ agents[1].destroys = 1 /\ agents[1].status = "dead"
    /\ Len(taskers) = 1 /\ taskers[1].destroys = 1
    /\ Len(controllers) = 2 /\ controllers[2] = 1
    /\ Len(resources) = 1 /\ resources[1].destroys = 1

\* The step is a launch of call c: a child is spawned and the connect
\* handshake runs (start_single_agent), or the batch is rolled back.
LaunchStep(c) == call[c].pc = "launch" /\ call'[c] # call[c]

\* The step is one of the shutdown thread t: a disconnect, a try_wait, a
\* sleep, or a kill and wait.
ShutdownStep(t) == thr[t].pc # "idle" /\ thr'[t] # thr[t]

\* The step is one of the four holds of the registry lock by maa_start_tasks
\* and maa_stop_agent: it reads the handles (storing a new tasker), appends
\* the batch, caches the task ids, or takes the agent collections.
LockSection ==
    \/ \E c \in Calls :
          /\ call[c].pc = "idle" /\ call'[c].pc # "idle"
          /\ \A i \in InstanceIds :
                instances[i] = [instances'[i] EXCEPT !.tasker = instances[i].tasker]
    \/ \E c \in Calls :
          /\ AttachStep(c)
          /\ instances' = [instances EXCEPT ![call[c].inst] =
                             AttachBatch(@, call[c].new_clients, call[c].new_children)]
    \/ \E c \in Calls :
          /\ call[c].pc = "post" /\ call'[c].pc = "done"
          /\ instances' = [instances EXCEPT ![call[c].inst].task_ids = call[c].task_ids]
    \/ \E i \in InstanceIds :
          /\ call' = call
          /\ instances' = [instances EXCEPT ![i] = TakeAgents(@)]

Launching(c) == call[c].pc \in {"launch", "attach", "post", "done"} /\ call[c].ncfg > 0

\* C14: in every state of a maa_start_tasks call with a batch, the launches
\* tried so far are those of the indices 0, 1, ... in this order, one per
\* step; all of them but the last succeeded, the agent launched k-th carries
\* index k - 1 and was started after the one before it; a launch has failed
\* only if the call has returned the error, and then no later index was tried.
C14_InOrder ==
    \A c \in Calls : Launching(c) =>
        LET me == call[c] IN
        /\ me.attempts <= me.ncfg
        /\ Len(me.new_children) = me.idx /\ Len(me.new_clients) = me.idx
        /\ \A k \in 1..me.idx :
              /\ agents[me.new_children[k]].index = k - 1
              /\ k > 1 => me.new_children[k - 1] < me.new_children[k]
        /\ IF FailedLaunch(c) THEN me.attempts = me.idx + 1
           ELSE me.attempts = me.idx
        /\ me.pc = "launch" => me.idx < me.ncfg
        /\ me.pc \in {"attach", "post"} => me.idx = me.ncfg

\* A call has stopped at the failure of agent 0 of a batch of MaxAgents: one
\* launch was tried, agent 1 never.
C14_Witness ==
    \E c \in Calls :
        /\ FailedLaunch(c) /\ call[c].ncfg = MaxAgents
        /\ call[c].attempts = 1 /\ call[c].idx = 0

\* The step is the launch of call c that fails at one of the steps in causes.
LaunchFails(c, causes) ==
    /\ LaunchStep(c)
    /\ call'[c].pc = "done" /\ call'[c].result.msg = "Agent start failed"
    /\ call'[c].result.detail.cause \in causes

\* C15: when start_single_agent fails at the connect handshake or at the
\* registration of the sinks, the step has spawned exactly one child, the one
\* of the agent that failed, and child.kill() was called on it: it no longer
\* runs when the error is returned.
C15_KilledOnConnectFailure ==
    [][\A c \in Calls : LaunchFails(c, {"connect", "register_sinks"}) =>
          /\ Len(agents') = Len(agents) + 1
          /\ agents'[Len(agents')].index = call[c].idx
          /\ agents'[Len(agents')].kills = 1
          /\ agents'[Len(agents')].status # "running"]_vars

\* The launch of agent 0 has failed after its child was spawned; the child is
\* dead, killed once and not waited for.
C15_Witness ==
    \E c \in Calls :
        /\ FailedLaunch(c) /\ call[c].result.detail.cause = "connect"
        /\ call[c].idx = 0 /\ Len(agents) = 1
        /\ agents[1].status = "dead" /\ agents[1].kills = 1 /\ agents[1].waits = 0

\* C16: when start_single_agent fails because the resource cannot be bound
\* or the client has no identifier, the step spawns no child process: the
\* table of agent processes is the one before the step, apart from the
\* rollback of the agents launched earlier in the batch.
C16_NoSpawnOnBindFailure ==
    [][\A c \in Calls : LaunchFails(c, {"bind", "identifier"}) =>
          /\ Len(agents') = Len(agents)
          /\ agents' = Rollback(agents, call[c].new_clients, call[c].new_children)]_vars

\* The launch of agent 0 has failed for want of an identifier, and no process
\* was ever started.
C16_Witness ==
    \E c \in Calls :
        /\ FailedLaunch(c) /\ call[c].result.detail.cause = "identifier"
        /\ call[c].idx = 0 /\ agents = <<>>

\* Thread t has just been spawned with the collections of the runtime rt: it
\* owns all of them and has made no engine or OS call yet.
Spawned(t, rt) ==
    /\ thr[t].pc = "idle" /\ thr'[t].pc # "idle"
    /\ thr'[t].clients = rt.agent_clients /\ thr'[t].children = rt.agent_children
    /\ thr'[t].ci = 1 /\ thr'[t].i = 1 /\ thr'[t].elapsed = 0 /\ thr'[t].polls = 0

\* C17: a maa_stop_agent step on a registered instance leaves both agent
\* collections of the instance empty; it makes no disconnect, poll, kill or
\* wait itself (the table of agents is unchanged when it returns); if the
\* instance held an agent client or child, one thread is handed all of them,
\* and if it held none no thread is started and nothing changes.
C17_TakeAll ==
    [][\A i \in InstanceIds, t \in Threads : StopAgent(i, t) =>
          /\ instances'[i].agent_clients = <<>> /\ instances'[i].agent_children = <<>>
          /\ agents' = agents
          /\ IF instances[i].agent_clients = <<>> /\ instances[i].agent_children = <<>>
             THEN thr' = thr /\ instances' = instances
             ELSE /\ Spawned(t, instances[i])
                  /\ \A u \in Threads \ {t} : thr'[u] = thr[u]]_vars

\* maa_stop_agent has returned on an instance that held MaxAgents agents: the
\* instance holds none, the thread holds them all and no client has been
\* disconnected yet.
C17_Witness ==
    /\ \E i \in InstanceIds :
          /\ instances[i].exists
          /\ instances[i].agent_clients = <<>> /\ instances[i].agent_children = <<>>
    /\ thr[1].pc = "disconnect" /\ Len(thr[1].clients) = MaxAgents
    /\ \A k \in 1..MaxAgents :
          /\ agents[thr[1].clients[k]].disconnects = 0
          /\ agents[thr[1].children[k]].status = "running"

\* Nothing has been done to child a by a shutdown thread: it was not polled,
\* killed or waited for.
Untouched(a) ==
    /\ agents[a].kills = 0 /\ agents[a].waits = 0
    /\ ~agents[a].sawExit /\ ~agents[a].pollErr

\* Thread t is in the turn of one of its children.
InTurn(t) == thr[t].pc \in {"poll", "sleep", "finish"}

\* While thread t disconnects its clients none of its children has been
\* touched, and once it turns to the children every client was disconnected.
DisconnectFirst(t) ==
    /\ thr[t].pc = "disconnect" =>
          /\ thr[t].polls = 0
          /\ \A k \in DOMAIN thr[t].children : Untouched(thr[t].children[k])
    /\ InTurn(t) =>
          \A k \in DOMAIN thr[t].clients : agents[thr[t].clients[k]].disconnects = 1

\* In the turn of child i the children before it are done with (reaped), the
\* children after it are untouched, and child i itself is not killed yet.
OneAtATime(t) ==
    InTurn(t) =>
        /\ \A k \in DOMAIN thr[t].children :
              /\ k < thr[t].i => agents[thr[t].children[k]].status = "reaped"
              /\ k > thr[t].i => Untouched(thr[t].children[k])
        /\ agents[thr[t].children[thr[t].i]].kills = 0

\* The clock of thread t measures the turn of the current child only: it is
\* the time slept since the turn began.
OwnWindow(t) == InTurn(t) /\ thr[t].pc # "finish" => PolledEveryInterval(t)

\* A turn begins with a fresh clock, and only when the turn before it ended.
FreshWindow ==
    \A t \in Threads :
        thr'[t].pc # "idle" /\ (thr[t].pc = "disconnect" \/ thr'[t].i # thr[t].i)
        /\ thr'[t].pc # "disconnect"
            => /\ thr'[t].elapsed = 0 /\ thr'[t].pc = "poll"
               /\ thr[t].pc \in {"disconnect", "finish"}
               /\ thr'[t].i = IF thr[t].pc = "disconnect" THEN 1 ELSE thr[t].i + 1

C18_Turns ==
    \A t \in Threads :
        /\ DisconnectFirst(t) /\ OneAtATime(t) /\ OwnWindow(t)
        /\ AboutToKill(t) /\ ~agents[thr[t].children[thr[t].i]].pollErr
              => ~InWindow(thr[t].elapsed)

C19_NoUseAfterDestroy == \A c \in Calls : call[c].stale = "none"

\* C20: when the launch of agent k of a batch has failed, the error that
\* maa_start_tasks returns carries the cause of the failure and names the
\* index k, whatever step of the launch failed.
C20_NamesIndex ==
    \A c \in Calls : FailedLaunch(c) =>
        /\ call[c].result.detail.cause # ""
        /\ call[c].result.detail.index = call[c].idx

\* Instance j and everything it holds are as they were before the step: its
\* runtime (resource, controller, tasker, agent collections, task_ids) and
\* the engine objects and processes behind its handles.
Kept(j) ==
    LET rt == instances[j] IN
    /\ instances'[j] = rt
    /\ rt.resource # 0 => resources'[rt.resource] = resources[rt.resource]
    /\ rt.controller # 0 => controllers'[rt.controller] = controllers[rt.controller]
    /\ rt.tasker.id # 0 => taskers'[rt.tasker.id] = taskers[rt.tasker.id]
    /\ \A k \in Range(rt.agent_clients) \cup Range(rt.agent_children) :
          agents'[k] = agents[k]

\* C21: every step of a command addressed to one instance i (create, destroy,
\* connect controller, load or destroy resource, the steps of
\* maa_start_tasks, maa_stop_task, maa_stop_agent) leaves every other instance
\* j unchanged: its runtime and the objects behind its handles.  (A step that
\* changes some other instance is not a step of a command addressed to i.)
C21_Frame ==
    [][\A i \in FrameIds : (\A j \in FrameIds \ {i} : Kept(j)) \/ ~FrameOps(i)]_vars

\* "b" is untouched, with all it holds, after "a" has had a resource
\* destroyed, an agent disconnected and a task id cached and cleared again.
C21_Witness ==
    /\ instances["b"] = FullRuntime
    /\ resources[1] = NewResource /\ controllers[1] = 0 /\ taskers[1] = NewTasker
    /\ agents[1] = NewAgent(0)
    /\ Len(resources) = 2 /\ resources[2].destroys = 1
    /\ Len(agents) = 2 /\ agents[2].disconnects > 0
    /\ Len(taskers) = 2 /\ taskers[2].stops > 0
    /\ ~instances["a"].exists

\* Call c is launching a batch for instance i: it is in its launch loop, or
\* has launched every agent and not yet appended them.
InFlight(c, i) ==
    call[c].inst = i /\ call[c].pc \in {"launch", "attach"} /\ call[c].ncfg > 0

\* C22: a maa_stop_agent step taken while a maa_start_tasks call is launching
\* a batch for the same instance leaves the call as it is (its position and
\* the agents it has launched so far), touches none of these agents, and
\* hands the thread exactly the agents stored in the instance; and the step
\* that ends a launch appends the whole batch, none of it disconnected or
\* killed, to what the instance holds at that moment.
C22_StopKeepsBatch ==
    [][/\ \A i \in InstanceIds, t \in Threads, c \in Calls :
             StopAgent(i, t) /\ InFlight(c, i) =>
                /\ call'[c] = call[c]
                /\ \A k \in Range(call[c].new_clients) :
                      /\ agents'[k] = agents[k]
                      /\ k \notin Range(thr'[t].clients) \cup Range(thr'[t].children)
                      /\ k \notin Range(instances[i].agent_clients)
                /\ instances[i].agent_clients # <<>> =>
                      /\ thr'[t].clients = instances[i].agent_clients
                      /\ thr'[t].children = instances[i].agent_children
       /\ \A c \in Calls : ST_Attach(c) =>
             LET me == call[c] IN
             /\ Len(me.new_clients) = me.ncfg /\ Len(me.new_children) = me.ncfg
             /\ \A k \in Range(me.new_clients) :
                   agents[k].disconnects = 0 /\ agents[k].kills = 0
             /\ instances[me.inst].exists =>
                   /\ instances'[me.inst].agent_clients =
                         instances[me.inst].agent_clients \o me.new_clients
                   /\ instances'[me.inst].agent_children =
                         instances[me.inst].agent_children \o me.new_children]_vars

\* A stop took the agent of the first batch no later than the second batch
\* was appended (in one of the behaviours that lead here, between the launch
\* of the second agent and the append): the thread holds the first agent, the
\* instance the second, which was never disconnected or killed.
C22_Witness ==
    /\ thr[1].pc = "disconnect" /\ thr[1].clients = <<1>>
    /\ call[1].pc \in {"post", "done"} /\ call[1].attached /\ call[1].new_clients = <<2>>
    /\ instances[call[1].inst].agent_clients = <<2>>
    /\ agents[2].disconnects = 0 /\ agents[2].kills = 0 /\ agents[2].status = "running"

\* Child a has been waited for or killed: a try_wait saw it exited, or it was
\* killed and waited on; either way it is reaped.
TornDown(a) ==
    /\ agents[a].status = "reaped"
    /\ agents[a].sawExit \/ (agents[a].kills = 1 /\ agents[a].waits = 1)

\* Some shutdown thread still holds agent a.
HeldByThread(a) ==
    \E t \in Threads : thr[t].pc # "idle" /\ a \in Range(thr[t].children)

RollbackErrReached ==
    /\ FailedLaunch(1) /\ call[1].new_clients = <<1>>
    /\ agents[1].disconnectErr /\ agents[1].killErr /\ agents[1].status = "reaped"

\* A step creates a tasker only for an instance that has none, and stores it
\* in the same step; a tasker that stays is not rebound; a call that goes on
\* past the first lock section works with the instance's tasker.
C24_Reuse ==
    /\ Len(taskers') # Len(taskers) =>
          /\ Len(taskers') = Len(taskers) + 1
          /\ \E i \in InstanceIds :
                /\ instances[i].exists /\ instances[i].tasker.id = 0
                /\ instances'[i].tasker =
                      [id |-> Len(taskers'), res |-> instances[i].resource,
                       ctrl |-> instances[i].controller]
    /\ \A i \in InstanceIds :
          /\ instances[i].tasker.id # 0 /\ instances'[i].tasker.id # 0
                => instances'[i].tasker = instances[i].tasker
          /\ instances[i].tasker.id = 0 /\ instances'[i].tasker.id # 0
                => Len(taskers') = Len(taskers) + 1
    /\ \A c \in Calls :
          call[c].pc = "idle" /\ call'[c].pc = "inited" =>
             /\ call'[c].tasker = instances'[call'[c].inst].tasker
             /\ call'[c].tasker.id # 0

\* Every tasker an instance holds was set up without a failure.
C24_StoredIsSetUp ==
    \A i \in InstanceIds :
        instances[i].tasker.id # 0 =>
            taskers[instances[i].tasker.id].setupErr = "none"

\* C24: under every interleaving of maa_start_tasks and maa_run_task on an
\* instance, a tasker is created only when the instance has none and is stored
\* in the same lock section, later submissions reuse it without rebinding,
\* and a tasker whose creation, sinks or binding failed is never stored.
C24_OneTasker == [][C24_Reuse]_vars /\ []C24_StoredIsSetUp

\* The launch of call c ended because the worker of start_single_agent
\* panicked.
Panicked(c) == call[c].attempts > 0 /\ call[c].result.detail.cause = "join"

\* C25: a panic of the blocking worker that runs start_single_agent does not
\* end the call abnormally: no call is ever left without a result, and a call
\* whose launch panicked has returned the error "Agent start failed" with the
\* worker's error as its detail, after the same rollback as for any other
\* failure: every agent launched before was sent one disconnect, killed,
\* waited on and reaped, none of them is stored, and no later agent was tried.
C25_PanicIsError ==
    \A c \in Calls :
        /\ call[c].pc # "crashed"
        /\ Panicked(c) =>
              /\ FailedLaunch(c)
              /\ call[c].result = StartFailed(LaunchError("join", call[c].idx))
              /\ call[c].result.detail.index = -1
              /\ Len(call[c].new_clients) = call[c].idx
              /\ call[c].attempts = call[c].idx + 1
              /\ ~call[c].attached
              /\ \A k \in Range(call[c].new_clients) :
                    /\ agents[k].disconnects = 1
                    /\ agents[k].kills = 1 /\ agents[k].waits = 1
                    /\ agents[k].status = "reaped"
                    /\ \A i \in InstanceIds :
                          k \notin Range(instances[i].agent_clients)

\* The worker launching the second agent panicked after it had spawned the
\* child: the call has returned the error and the first agent is rolled back.
C25_Witness ==
    /\ Panicked(1) /\ call[1].pc = "done" /\ call[1].result.kind = "Err"
    /\ call[1].new_clients = <<1>> /\ call[1].idx = 1
    /\ agents[1].disconnects = 1 /\ agents[1].status = "reaped"
    /\ Len(agents) = 2

\* Every answer of a but the two creations is a success.
RestSucceeds(a) ==
    /\ a.bind /\ a.identifier /\ a.spawn /\ a.connect /\ a.register_sinks
    /\ a.panic = "no"

\* The step has launched one more agent of call 1, with a client of the given
\* kind.
Launched(kind) ==
    /\ Len(agents') = Len(agents) + 1
    /\ agents'[Len(agents')].client = kind
    /\ call'[1].new_clients = Append(call[1].new_clients, Len(agents'))
    /\ call'[1].pc \in {"launch", "attach"}

\* C26: in a launch with tcp_compat_mode set whose TCP client cannot be
\* created, start_single_agent goes on with the default client: if the default
\* client is created the launch succeeds with it when every later step
\* succeeds, and fails at the later step that fails (here the spawn); it
\* fails with the creation as its cause exactly when the default client
\* fails too.  When the TCP client is created the default client is not
\* asked for; without tcp_compat_mode the TCP client is not asked for.
C26_Fallback ==
    [][\A a \in TcpAnswers : ST_Launch(1, a) /\ a.panic = "no" =>
          LET cause == call'[1].result.detail.cause IN
          /\ call[1].tcp /\ ~a.create_tcp /\ a.create /\ RestSucceeds(a)
                => Launched("default")
          /\ call[1].tcp /\ ~a.create_tcp /\ a.create /\ ~a.spawn
                => cause = "spawn" /\ call'[1].pc = "done"
          /\ call[1].tcp /\ a.create_tcp /\ RestSucceeds(a) => Launched("tcp")
          /\ ~call[1].tcp /\ a.create /\ RestSucceeds(a) => Launched("default")
          /\ cause = "create" <=>
                IF call[1].tcp THEN ~a.create_tcp /\ ~a.create ELSE ~a.create]_vars

\* A call with tcp_compat_mode set holds an agent whose client is the default
\* one: its TCP client could not be created.
C26_Witness ==
    /\ call[1].tcp /\ call[1].pc \in {"launch", "attach"}
    /\ call[1].new_clients # <<>>
    /\ agents[call[1].new_clients[1]].client = "default"
    /\ agents[call[1].new_clients[1]].status = "running"

\* C27: the step in which maa_start_tasks caches its ids and returns Ok(ids)
\* leaves, in an instance that still exists, task_ids equal to ids exactly,
\* whatever was cached before (the ids of the call's successful posts, in
\* order); if the instance is gone nothing is cached.
C27_CacheReplaces ==
    [][\A c \in Calls : ST_Cache(c) =>
          LET i == call[c].inst IN
          /\ call'[c].result.kind = "Ok"
          /\ call'[c].result.ids = OkIds(call[c].posts)
          /\ IF instances[i].exists
             THEN /\ instances'[i].task_ids = call'[c].result.ids
                  /\ instances'[i] = [instances[i] EXCEPT !.task_ids = call'[c].result.ids]
             ELSE instances' = instances]_vars

\* A second call with one task has returned Ok(<<2>>); the instance, which
\* had cached the id 1 of an earlier call, now caches <<2>>.
C27_Witness ==
    /\ call[1].pc = "done" /\ call[1].ntasks = 1 /\ call[1].cached
    /\ call[1].result = Ok(<<2>>)
    /\ instances[call[1].inst].exists
    /\ instances[call[1].inst].task_ids = <<2>>
    /\ taskers = <<NewTasker>>

\* C28: a maa_stop_task step on an instance that has a tasker empties the
\* cached task_ids and posts one stop to that tasker; the instance's resource,
\* controller, tasker and agent collections, every other instance, every
\* other tasker and all resources, controllers and agents stay as they were.
C28_StopTask ==
    [][\A i \in FrameIds :
          StopTask(i) /\ instances[i].exists /\ instances[i].tasker.id # 0 =>
             LET t == instances[i].tasker.id IN
             /\ instances' = [instances EXCEPT ![i].task_ids = <<>>]
             /\ taskers' = [taskers EXCEPT ![t].stops = @ + 1]
             /\ taskers[t].destroys = 0
             /\ UNCHANGED <<resources, controllers, agents, nextJob, call, thr>>]_vars

\* "a" was stopped after a call had stored an agent and cached the id of its
\* task: the cache is empty, the tasker got one stop, and "a" still holds its
\* resource, controller, tasker and agent.
C28_Witness ==
    /\ call[1].pc = "done" /\ call[1].inst = "a" /\ call[1].cached
    /\ call[1].result = Ok(<<2>>)
    /\ instances["a"].task_ids = <<>>
    /\ instances["a"].tasker = call[1].tasker
    /\ taskers[call[1].tasker.id].stops = 1 /\ taskers[call[1].tasker.id].destroys = 0
    /\ instances["a"].resource # 0 /\ instances["a"].controller # 0
    /\ instances["a"].agent_clients = call[1].new_clients
    /\ call[1].new_clients # <<>>

\* C29, one maa_connect_controller step.  If the controller is created and
\* the connection posted, an instance that is registered stores the new
\* controller and its old one, if it had one, gets one destroy; if the
\* controller is not created nothing changes; if the connection is not posted
\* the new controller is destroyed and the instance keeps its controller,
\* which gets no destroy.  Nothing else in the instance changes.
C29_Step ==
    \A i \in InstanceIds, created, posted \in BOOLEAN :
        ConnectController(i, created, posted) =>
            LET old == instances[i].controller
                new == Len(controllers) + 1
            IN
            /\ ~created => UNCHANGED <<instances, controllers>>
            /\ created /\ ~posted =>
                  /\ instances' = instances
                  /\ controllers' = Append(controllers, 1)
            /\ created /\ posted /\ instances[i].exists =>
                  /\ instances' = [instances EXCEPT ![i].controller = new]
                  /\ Len(controllers') = new /\ controllers'[new] = 0
                  /\ \A h \in 1..Len(controllers) :
                        controllers'[h] = controllers[h] + (IF h = old THEN 1 ELSE 0)

\* C29: every maa_connect_controller step is as C29_Step says, no controller
\* is ever destroyed twice, and the controller an instance holds is not
\* destroyed.
C29_Replace ==
    /\ [][C29_Step]_vars
    /\ [](/\ \A h \in 1..Len(controllers) : controllers[h] <= 1
          /\ \A i \in InstanceIds :
                instances[i].controller # 0 => controllers[instances[i].controller] = 0)

\* The instance holds its second controller; the first, to which its tasker
\* was bound while the instance held it, was destroyed once.
C29_Witness ==
    \E i \in InstanceIds :
        /\ instances[i].controller = 2 /\ instances[i].tasker.ctrl = 1
        /\ controllers = <<1, 0>>

\* C30, one maa_load_resource step: on an instance that has a resource the
\* registry is unchanged, no resource is created and the bundles go to the
\* resource it has; on an instance without one a resource is created (if the
\* engine returns one), stored, and given the bundles.
C30_Step ==
    \A i \in InstanceIds, created \in BOOLEAN, npaths \in 0..1 :
        LoadResource(i, created, npaths) =>
            LET h == instances[i].resource IN
            /\ h # 0 =>
                  /\ instances' = instances
                  /\ resources' = [resources EXCEPT ![h].bundles = @ + npaths]
            /\ h = 0 /\ instances[i].exists /\ created =>
                  /\ resources' = Append(resources, [NewResource EXCEPT !.bundles = npaths])
                  /\ instances' = [instances EXCEPT ![i].resource = Len(resources')]
            /\ ~instances[i].exists \/ (h = 0 /\ ~created) =>
                  UNCHANGED <<instances, resources>>

\* C30: every maa_load_resource step is as C30_Step says; no step replaces
\* the resource an instance holds by another one; and every resource that was
\* created and not destroyed is the one some instance holds, so the loads made
\* between two destroys have created one resource in all.
C30_LoadReuses ==
    /\ [][/\ C30_Step
          /\ \A i \in InstanceIds :
                instances[i].resource # 0 /\ instances'[i].resource # 0
                   => instances'[i].resource = instances[i].resource]_vars
    /\ [](\A h \in 1..Len(resources) :
             resources[h].destroys = 0 => \E i \in InstanceIds : instances[i].resource = h)

\* Two loads of one bundle each went to the same resource, the only one that
\* was created.
C30_Witness ==
    \E i \in InstanceIds :
        /\ instances[i].resource = 1
        /\ resources = <<[NewResource EXCEPT !.bundles = 2]>>

\* The handle of the given kind that the runtime holds, 0 if none.
HeldHandle(rt, kind) ==
    IF kind = "controller" THEN rt.controller
    ELSE IF kind = "resource" THEN rt.resource
    ELSE rt.tasker.id

\* The InstanceState st reports the runtime rt as the engine answered e: a
\* flag is set only if the runtime holds the handle and the engine said yes
\* for it.
Authoritative(st, rt, e) ==
    /\ st.connected = (rt.controller # 0 /\ e.connected)
    /\ st.resource_loaded = (rt.resource # 0 /\ e.resource_loaded)
    /\ st.tasker_inited = (rt.tasker.id # 0 /\ e.tasker_inited)
    /\ st.is_running = (rt.tasker.id # 0 /\ e.is_running)
    /\ st.task_ids = rt.task_ids

\* One query step: the registry, the engine and the processes stay as they
\* were; every InstanceState of the reply is that of an instance in the
\* registry, computed from the handles the instance holds now and from the
\* engine's answers for them; the engine was asked about those handles and no
\* others, and none of them was destroyed before.
C31_Step ==
    /\ UNCHANGED <<instances, resources, controllers, taskers, agents, nextJob, call, thr>>
    /\ \A j \in DOMAIN reply'.states :
          /\ instances[j].exists
          /\ Authoritative(reply'.states[j], instances[j], reply'.engine[j])
    /\ reply'.asked =
          {<<kind, HeldHandle(instances[j], kind)>> :
              j \in DOMAIN reply'.states, kind \in {"controller", "resource", "tasker"}}
          \ {<<kind, 0>> : kind \in {"controller", "resource", "tasker"}}
    /\ \A q \in reply'.asked :
          IF q[1] = "controller" THEN controllers[q[2]] = 0
          ELSE IF q[1] = "resource" THEN resources[q[2]].destroys = 0
          ELSE taskers[q[2]].destroys = 0

\* C31: every step of maa_get_instance_state and of maa_get_all_states is as
\* C31_Step says.  maa_get_instance_state answers Ok with the one InstanceState
\* of a registered instance when the library is loaded; maa_get_all_states
\* answers Ok with one InstanceState for every registered instance when the
\* library is loaded and with an empty map when it is not.
C31_Snapshot ==
    [][\/ reply' = reply
       \/ reply' = NoReply
       \/ /\ C31_Step
          /\ \A i \in FrameIds, loaded \in BOOLEAN, e \in EngineFlags :
                GetInstanceState(i, loaded, e) =>
                   IF loaded /\ instances[i].exists
                   THEN reply'.kind = "Ok" /\ DOMAIN reply'.states = {i}
                        /\ reply'.engine[i] = e
                   ELSE reply'.kind = "Err" /\ reply'.states = <<>>
          /\ \A loaded \in BOOLEAN, es \in [FrameIds -> SnapshotFlags] :
                GetAllStates(loaded, es) =>
                   /\ reply'.kind = "Ok"
                   /\ DOMAIN reply'.states =
                         IF loaded THEN {j \in FrameIds : instances[j].exists} ELSE {}
                   /\ \A j \in DOMAIN reply'.states : reply'.engine[j] = es[j]]_vars

\* maa_get_all_states has answered for two instances to which the engine gave
\* the same answers, all four flags set: "a", which holds a controller and no
\* tasker, is reported connected and neither inited nor running; "b", which
\* holds every handle, has all four flags.
C31_Witness ==
    /\ reply.cmd = "maa_get_all_states" /\ DOMAIN reply.states = {"a", "b"}
    /\ \A j \in {"a", "b"} :
          reply.engine[j] = [connected |-> TRUE, resource_loaded |-> TRUE,
                             tasker_inited |-> TRUE, is_running |-> TRUE]
    /\ instances["a"].controller # 0 /\ instances["a"].tasker.id = 0
    /\ instances["a"].resource = 0
    /\ reply.states["a"] = [connected |-> TRUE, resource_loaded |-> FALSE,
                            tasker_inited |-> FALSE, is_running |-> FALSE,
                            task_ids |-> <<>>]
    /\ reply.states["b"] = [connected |-> TRUE, resource_loaded |-> TRUE,
                            tasker_inited |-> TRUE, is_running |-> TRUE,
                            task_ids |-> <<1>>]

\* maa_get_all_states has answered with an empty map although the registry
\* holds an instance: the library is missing.
SnapshotEmptyReached ==
    /\ reply.cmd = "maa_get_all_states" /\ reply.states = <<>>
    /\ \E j \in FrameIds : instances[j].exists

\* The entries of seq that belong to stream s, in their order.
OfStream(seq, s) ==
    LET Is(e) == e.stream = s IN SelectSeq(seq, Is)

\* The last pieces of the records in the file, one per record.
RecordEnds ==
    LET IsEnd(e) == e.part = "line" IN SelectSeq(logfile.data, IsEnd)

\* seq holds the lines 1, 2, ... of its stream, each once, in the order read.
InReadOrder(seq) == \A p \in DOMAIN seq : seq[p].k = p

\* The file is a sequence of whole records: every record's prefix is directly
\* followed by its own line; only the last record may still lack its line.
WholeRecords ==
    \A p \in DOMAIN logfile.data :
        LET e == logfile.data[p] IN
        IF p % 2 = 1 THEN e.part = "prefix"
        ELSE /\ e.part = "line"
             /\ logfile.data[p - 1].stream = e.stream
             /\ logfile.data[p - 1].k = e.k

\* C32, the state part.  The file holds whole records only, and pieces are
\* written by the reader that holds the mutex.  For each stream: the records
\* and the events are those of the lines read, in the order read; the line
\* being handled is the only one that may still lack its event, and with a log
\* file its record is complete before its event is emitted; without a log file
\* nothing is written and the events are emitted all the same.  A reader has
\* left its loop only at the end of the stream or on a read error, with every
\* line it read handled.
C32_Handled ==
    /\ WholeRecords
    /\ ~logfile.opened => logfile.data = <<>> /\ logfile.owner = "none"
    /\ \A s \in Streams :
          LET r == readers[s]
              ev == OfStream(events, s)
              rec == OfStream(RecordEnds, s)
              busy == r.pc \in {"lock", "prefix", "line", "emit"}
          IN /\ InReadOrder(ev) /\ InReadOrder(rec)
             /\ Len(ev) = IF busy THEN r.n - 1 ELSE r.n
             /\ logfile.opened => Len(rec) = IF r.pc \in {"lock", "prefix", "line"}
                                              THEN r.n - 1 ELSE r.n
             /\ logfile.owner = s <=> r.pc \in {"prefix", "line"}
             /\ r.pc = "stopped" <=> r.stop \in {"eof", "err"}

\* C32: C32_Handled always holds, and a reader that has left its loop reads,
\* writes and emits nothing more.
C32_Readers ==
    /\ []C32_Handled
    /\ [][\A s \in Streams :
             readers[s].pc = "stopped" =>
                /\ readers'[s] = readers[s]
                /\ OfStream(events', s) = OfStream(events, s)
                /\ OfStream(logfile'.data, s) = OfStream(logfile.data, s)]_vars

\* Both readers have handled two lines and stopped, stdout at the end of its
\* stream and stderr on a read error; the file holds the four records whole,
\* and the records and the events of the two streams are interleaved in
\* different orders.
C32_Witness ==
    /\ readers["stdout"] = [pc |-> "stopped", n |-> 2, stop |-> "eof"]
    /\ readers["stderr"] = [pc |-> "stopped", n |-> 2, stop |-> "err"]
    /\ logfile.opened /\ Len(logfile.data) = 8
    /\ [p \in 1..4 |-> RecordEnds[p].stream] = <<"stdout", "stderr", "stdout", "stderr">>
    /\ [p \in 1..4 |-> events[p].stream] = <<"stderr", "stdout", "stdout", "stderr">>

\* Without a log file both readers have emitted their lines.
NoLogFileReached ==
    /\ ~logfile.opened /\ Len(events) = 4
    /\ \A s \in Streams : readers[s].pc = "stopped"

\* The single-agent call c has returned "Failed to connect to agent".
ConnectRefused(c) ==
    /\ call[c].pc = "done"
    /\ call[c].result = Err("Failed to connect to agent")

\* C33: once the single-agent maa_start_tasks has returned the error of a
\* failed connect handshake, the child process of that launch is not running
\* and no instance holds it.
C33_ChildTerminated ==
    \A c \in Calls :
        ConnectRefused(c) =>
            \A k \in DOMAIN call[c].new_children :
                LET a == call[c].new_children[k] IN
                /\ agents[a].status # "running"
                /\ \A i \in InstanceIds : a \notin Range(instances[i].agent_children)

\* The handshake was refused and the call has returned: the client was
\* destroyed once, the child was never killed.
C33_Refused ==
    \E c \in Calls :
        /\ ConnectRefused(c)
        /\ \A k \in DOMAIN call[c].new_children :
              LET a == call[c].new_children[k] IN
              agents[a].destroys = 1 /\ agents[a].kills = 0

\* The thread t spawned by the single-agent maa_stop_agent has not ended.
LegacyTeardown(t) == thr[t].pc \in {"l_disconnect", "l_wait"}

\* C34: the background teardown of the single-agent maa_stop_agent can always
\* take its next step, whatever the child does: it is never left waiting for
\* a child that keeps running.
C34_TeardownProceeds ==
    \A t \in Threads :
        LegacyTeardown(t) => ENABLED (Legacy_ThrDisconnect(t) \/ Legacy_ThrWait(t))

\* The thread is in child.wait() on a child that still runs and that it has
\* never killed.
C34_Stuck ==
    \E t \in Threads :
        /\ thr[t].pc = "l_wait"
        /\ agents[thr[t].children[1]].status = "running"
        /\ agents[thr[t].children[1]].kills = 0

\* Instance i is not in the registry.
Absent(i) == ~instances[i].exists

\* A step of a command that was given the instance id i, other than
\* maa_create_instance and maa_destroy_instance.
Addressed(i) ==
    \/ \E created, posted \in BOOLEAN : ConnectController(i, created, posted)
    \/ \E created \in BOOLEAN : LoadResource(i, created, 0)
    \/ DestroyResource(i)
    \/ \E created, inited, posted \in BOOLEAN : RunTask(i, created, "ok", inited, posted)
    \/ StopTask(i)
    \/ StopAgent(i, 1)
    \/ Legacy_StopAgent(i, 1)
    \/ \E step \in TaskerSteps : ST_Acquire(1, i, 0, -1, FALSE, step)
    \/ \E created \in BOOLEAN : Legacy_Acquire(1, i, 0, FALSE, created)
    \/ \E loaded \in BOOLEAN, e \in EngineFlags : GetInstanceState(i, loaded, e)

\* What the commands other than maa_connect_controller return for an
\* instance that is not registered, whatever the engine answers: the
\* registry commands and both maa_start_tasks "Instance not found",
\* maa_get_instance_state an error.
ErrorsWhenAbsent(i) ==
    LET rt == instances[i] IN
    /\ \A created \in BOOLEAN : LoadResourceError(rt, created) = NotFound
    /\ \A created, inited, posted \in BOOLEAN :
          RunTaskError(rt, created, inited, posted) = NotFound
    /\ StopTaskError(rt) = NotFound
    /\ LookupError(rt) = NotFound
    /\ \A step \in TaskerSteps : Acquire(rt, step, Len(taskers) + 1).err = NotFound
    /\ call[1].pc = "done" /\ call[1].inst = i => call[1].result = Err(NotFound)
    /\ reply.cmd = "maa_get_instance_state" =>
          /\ reply.kind = "Err"
          /\ reply.msg \in {NotFound, "MaaFramework not initialized"}

\* maa_destroy_instance removes the instance, and on an instance that is not
\* registered it changes nothing.
DestroyIdempotent ==
    \A i \in InstanceIds :
        DestroyInstance(i) => /\ Absent(i)'
                              /\ Absent(i) => UNCHANGED vars

\* No command but maa_create_instance registers an instance.
NoImplicitCreate ==
    \A i \in InstanceIds : Absent(i) /\ Addressed(i) => instances' = instances

InProgress(c) == cmds[c].pc # "idle"

\* The steps by which the commands in progress go on.
Continue ==
    \/ Destroy_Drop
    \/ \E created \in BOOLEAN, setup \in RunSetups : Run_Acquire(created, setup)
    \/ \E inited, posted \in BOOLEAN : Run_Post(inited, posted)
    \/ Run_Cache
    \/ \E e \in SnapshotFlags : Query_Read(e)

\* maa_destroy_instance waits for MAA_LIBRARY with the registry lock in its
\* hand while the holder of MAA_LIBRARY waits for the registry lock.
Deadlocked ==
    /\ cmds["destroy"].pc = "drop"
    /\ mutex.instances = "destroy"
    /\ \E c \in {"run", "query"} :
          /\ mutex.library = c
          /\ cmds[c].pc \in {"registry", "cache"}

\* C36: no interleaving of concurrently invoked commands deadlocks on the
\* MAA_LIBRARY lock and the registry lock: whenever a command is in progress,
\* some command in progress can take its next step; in particular
\* maa_destroy_instance, which drops the removed InstanceRuntime under the
\* registry lock, is never stuck behind maa_run_task or a query that took
\* MAA_LIBRARY first.
C36_NoDeadlock ==
    /\ (\E c \in DOMAIN cmds : InProgress(c)) => ENABLED Continue
    /\ ~Deadlocked

\* ------------------------------------------------------------------ C37

\* Agent a (its client and its child) is held by an instance of the registry.
AttachedTo(reg, a) ==
    \E i \in DOMAIN reg :
       /\ reg[i].exists
       /\ \E k \in 1..Len(reg[i].agent_clients) : reg[i].agent_clients[k] = a
       /\ \E k \in 1..Len(reg[i].agent_children) : reg[i].agent_children[k] = a

\* Agent a was disconnected and its child process has terminated.
Terminated(ags, a) == ags[a].disconnects > 0 /\ ags[a].status # "running"

\* C37: when maa_start_tasks has launched a whole batch and comes to store it
\* (lines 372-377), every agent of the batch is afterwards attached to an
\* instance in the registry, or disconnected with its child terminated, also
\* if the instance was removed while the batch was launched.
C37_BatchOwned ==
    [][\A c \in Calls :
          call[c].pc = "attach" /\ call'[c].pc = "post" =>
             \A k \in 1..Len(call[c].new_children) :
                \/ AttachedTo(instances', call[c].new_children[k])
                \/ Terminated(agents', call[c].new_children[k])]_vars

\* ------------------------------------------------------------------ C38

\* C38: a maa_stop_task that returns "Tasker not created" leaves the instance
\* as it was; its cached task_ids are not cleared.
C38_StopTaskKeeps ==
    [][\A i \in FrameIds :
          StopTaskError(instances[i]) = "Tasker not created" /\ StopTask(i) =>
             /\ instances'[i] = instances[i]
             /\ instances'[i].task_ids = instances[i].task_ids]_vars

\* ------------------------------------------------------------------ C39

\* Controller handle c is held by a registered instance.
StoredController(reg, c) ==
    \E i \in DOMAIN reg : reg[i].exists /\ reg[i].controller = c

\* C39: the controller a maa_connect_controller call has created is, when the
\* call returns, stored on an instance or destroyed, whether the call succeeds
\* or fails, also if the instance id is not in the registry.
C39_ControllerOwned ==
    [][Len(controllers') > Len(controllers) =>
          LET c == Len(controllers') IN
             \/ StoredController(instances', c)
             \/ controllers'[c] > 0]_vars

\* ------------------------------------------------------------------ C40

\* The session id of call d has been superseded by a newer download_file.
Superseded(d) == download.session # download.calls[d].session_id

\* C40: a download_file call during which cancel_download was invoked, or
\* whose session id was superseded by a newer call, returns the cancelled
\* error, has not renamed the temp file onto the save path, and leaves no
\* temp file of its own behind.
C40_Cancelled ==
    \A d \in Downloads :
       LET me == download.calls[d] IN
       me.pc = "done" /\ (me.cancelSeen \/ Superseded(d)) =>
          /\ me.result = "cancelled"
          /\ ~me.renamed
          /\ (\A o \in Downloads \ {d} : ~Downloading(o)) => download.temp = "absent"


====
